---- MODULE Spec2Model ----
(***************************************************************************)
(* Model of the snivy execution core: the Engine select loop               *)
(* (engine/runner.rs), the position ledger (exchange/position_manager.rs), *)
(* the moving-average crossover strategy with its indicators, rate limiter *)
(* and snapshot persistence (strategies/ma_crossover/mod.rs,               *)
(* marketdata/indicators.rs, storage/persistence.rs) and the market and    *)
(* fill pipelines that feed the loop (exchange/ws_client.rs,               *)
(* marketdata/feeds.rs).                                                   *)
(*                                                                         *)
(* Numbers: prices and sizes are f64 in the source.  They are modelled as  *)
(* integers (prices in ticks, sizes in lots) and a mean as the exact       *)
(* fraction [num, den]; floating-point rounding is not modelled.           *)
(* Time: Instant is modelled as an integer number of seconds.              *)
(***************************************************************************)
EXTENDS Integers, Sequences, FiniteSets, TLC

VARIABLES
    params,         \* MaCrossoverParams of the strategy instance
    strat,          \* MaCrossoverStrategy: windows, last_signal, bootstrapped, rate limiter
    store,          \* SnapshotStore: content of the strategy's snapshot file
    ledger,         \* PositionManager.inner: asset -> Position (or NoPosition)
    now,            \* the clock read by Instant::now()
    upstreamQ,      \* messages queued on the candle subscription (mpsc) of InfoService
    upstreamClosed, \* the candle subscription's sender has been dropped
    fwdPc,          \* the task spawned by connect_candles: "running" / "exited" / "aborted"
    mktQ,           \* events buffered for the engine's broadcast receiver
    mktLag,         \* events the engine's receiver has missed and not yet been told about
    rawFillQ,       \* messages queued on the user-fills subscription (mpsc)
    rawFillClosed,  \* the user-fills subscription's sender has been dropped
    fillTaskPc,     \* the task spawned by user_fills_stream: "running" / "exited"
    fillQ,          \* FillEvents queued on the engine's fill channel
    engineFills,    \* Engine.fills: "some" / "none"
    enginePc,       \* app.rs run and Engine::run: "build" / "start" / "select" / "ok" / "err"
    obs,            \* what the last handler call of the engine did
    sent,           \* number of messages the exchange has produced so far: [mkt, fill]
    restarts,       \* number of process restarts so far
    limiter,        \* a stand-alone OrderRateLimiter: [max_per_minute, timestamps, window]
    granted,        \* the instants at which the stand-alone limiter returned true
    fillLog,        \* the fills applied to the ledger, in order
    twin,           \* a strategy restored from the snapshot, run beside the original
    ma,             \* a stand-alone MovingAverage with the observations pushed into it
    conc,           \* threads calling PositionManager::apply_fill and snapshot concurrently
    trace,          \* the closes given to on_event with the signal and intents after each
    storeOps,       \* the accesses MaCrossoverBuilder::build made to the SnapshotStore
    router,         \* a stand-alone OrderRouter: the submit calls made and what the exchange did
    feed            \* a stand-alone FeedCoordinator: the events published and its receive handles

vars == <<params, strat, store, ledger, now, upstreamQ, upstreamClosed, fwdPc,
          mktQ, mktLag, rawFillQ, rawFillClosed, fillTaskPc, fillQ, engineFills,
          enginePc, obs, sent, restarts, limiter, granted, fillLog, twin,
          ma, conc, trace, storeOps, router, feed>>

\* the variables only the component specifications use
aux == <<limiter, granted, fillLog, twin, ma, conc, trace, storeOps, router, feed>>

\* the variables of the indicator, the concurrent ledger, the crossover
\* scenario and the builder
units == <<ma, conc, trace, storeOps, router, feed>>

----------------------------------------------------------------------------
(* Bounds of the model                                                     *)

MaxMarketMsgs == 2
MaxFillMsgs == 1
MaxClock == 61
Buffer == 1
MaxPending == 1
MaxQueued == 2
MaxWaiting == 1
MaxPeriod == 3
MaxSeed == 3
MaxPushed == 4
MaxObserved == 4
MaxCloses == 6
MaxWriters == 2
MaxRawWindow == 2
MaxSubmits == 2
MaxBootLog == 4
MaxRestarts == 2
MaxPublished == 3
MaxHandles == 2
MaxConcurrentFills == 3
MaxEvents == 2
MaxFills == 2
MaxApplied == 3
MaxPermits == 2
MaxWindow == 2
MaxLimiterClock == 5

ClockStep == 61

Prices == {1, 2}
Assets == {"BTC", "ETH"}
Sizes == {1, 2}

None == [tag |-> "None"]
Some(v) == [tag |-> "Some", value |-> v]

----------------------------------------------------------------------------
(* utils/math.rs, marketdata/indicators.rs                                 *)

RECURSIVE SumSeq(_)
SumSeq(s) == IF s = <<>> THEN 0 ELSE Head(s) + SumSeq(Tail(s))

\* simple_moving_average: None on an empty slice, else sum / len
simple_moving_average(window) ==
    IF window = <<>> THEN None
    ELSE Some([num |-> SumSeq(window), den |-> Len(window)])

MeanLess(a, b) == a.num * b.den < b.num * a.den

Take(s, n) == SubSeq(s, 1, IF Len(s) < n THEN Len(s) ELSE n)

\* the supplied values are kept whole
seed_untruncated(period, values) == values

\* MovingAverage::seed: clear, then push the first `period` values
seed(period, values) == Take(values, period)

\* the mean is returned for a window that is not yet full
update_partial(window, period, value) ==
    LET pushed == Append(window, value)
        w == IF Len(pushed) > period THEN Tail(pushed) ELSE pushed
    IN  [window |-> w, value |-> simple_moving_average(w)]

\* MovingAverage::update: push_back, pop_front when longer than period,
\* the mean when the window holds exactly `period` values
update(window, period, value) ==
    LET pushed == Append(window, value)
        w == IF Len(pushed) > period THEN Tail(pushed) ELSE pushed
    IN  [window |-> w,
         value |-> IF Len(w) = period THEN simple_moving_average(w) ELSE None]

is_ready(window, period) == Len(window) = period

----------------------------------------------------------------------------
(* exchange/position_manager.rs                                            *)

NoPosition == [tag |-> "None"]

Position(asset, size, entry_price) ==
    [tag |-> "Some", asset |-> asset, size |-> size, entry_price |-> entry_price]

EmptyLedger == [a \in Assets |-> NoPosition]

\* a fill on an instrument already held replaces the held size
apply_fill_replacing(l, fill) ==
    [l EXCEPT ![fill.asset] =
        Position(fill.asset, IF fill.is_buy THEN fill.size ELSE 0 - fill.size,
                 fill.price)]

\* PositionManager::apply_fill
apply_fill(l, fill) ==
    LET cur == l[fill.asset]
    IN  IF cur.tag = "Some"
        THEN [l EXCEPT ![fill.asset] =
                IF fill.is_buy
                THEN Position(cur.asset, cur.size + fill.size, fill.price)
                ELSE Position(cur.asset, cur.size - fill.size, cur.entry_price)]
        ELSE [l EXCEPT ![fill.asset] =
                Position(fill.asset,
                         IF fill.is_buy THEN fill.size ELSE 0 - fill.size,
                         fill.price)]

\* DashMap::entry takes the write lock of the key's shard: no other holder.
\* The lock is modelled per instrument: 0 free, w > 0 held by the apply_fill
\* call w, -1 held by the iterator of snapshot
LockFree(lock, asset) == lock[asset] = 0

\* the iterator reads without regard to the lock
ReadUnguarded(lock, asset) == TRUE

\* DashMap::iter takes the read lock of the shard it yields from: no writer
ReadFree(lock, asset) == lock[asset] = 0

\* MaCrossoverStrategy::net_position over ctx.positions() (PositionManager::snapshot)
net_position(l, asset) ==
    IF asset \in DOMAIN l /\ l[asset].tag = "Some" THEN l[asset].size ELSE 0

----------------------------------------------------------------------------
(* strategies/ma_crossover/mod.rs: OrderRateLimiter                        *)

WindowSeconds == 60

RECURSIVE EvictAtBoundary(_, _, _)
\* a permit is dropped as soon as its age reaches the window
EvictAtBoundary(timestamps, t, window) ==
    IF timestamps # <<>> /\ t - Head(timestamps) >= window
    THEN EvictAtBoundary(Tail(timestamps), t, window)
    ELSE timestamps

RECURSIVE Evict(_, _, _)
\* the while loop of allow: pop the front while it is older than the window
Evict(timestamps, t, window) ==
    IF timestamps # <<>> /\ t - Head(timestamps) > window
    THEN Evict(Tail(timestamps), t, window)
    ELSE timestamps

\* OrderRateLimiter::allow at instant t
allow(timestamps, t, window, max_per_minute) ==
    LET kept == Evict(timestamps, t, window)
    IN  IF Len(kept) >= max_per_minute
        THEN [timestamps |-> kept, ok |-> FALSE]
        ELSE [timestamps |-> Append(kept, t), ok |-> TRUE]

----------------------------------------------------------------------------
(* strategies/ma_crossover/mod.rs: MaCrossoverStrategy                     *)

NoSnapshot == [tag |-> "None"]

\* MaCrossoverStrategy::build_snapshot (MaCrossoverSnapshot)
build_snapshot(st) ==
    [tag |-> "Some", short_values |-> st.short, long_values |-> st.long,
     last_signal |-> st.last_signal]

\* SnapshotStore::save: the file is overwritten, or the error leaves it as it was
save(file, payload, io_ok) == IF io_ok THEN payload ELSE file

\* MaCrossoverStrategy::persist_state
persist_state(st, file, io_ok) ==
    [store |-> save(file, build_snapshot(st), io_ok), ok |-> io_ok]

\* MaCrossoverStrategy::restore_from_snapshot
restore_from_snapshot(p, st, snapshot) ==
    [st EXCEPT !.short = seed(p.short_window, snapshot.short_values),
               !.long = seed(p.long_window, snapshot.long_values),
               !.last_signal = snapshot.last_signal]

\* MaCrossoverStrategy::load_from_snapshot
load_from_snapshot(p, st, file) ==
    IF file.tag = "Some"
    THEN [restore_from_snapshot(p, st, file) EXCEPT !.bootstrapped = TRUE]
    ELSE st

Max(a, b) == IF a > b THEN a ELSE b

\* the rate limit the builder configures: params.max_order_rate_per_min.max(1)
RateLimit(p) == Max(p.max_order_rate_per_min, 1)

\* MaCrossoverBuilder::build: Err on short_window >= long_window, else the
\* strategy with empty windows, Flat, not bootstrapped, an empty limiter,
\* then load_from_snapshot
build(p, file) ==
    IF p.short_window >= p.long_window
    THEN [ok |-> FALSE, strategy |-> None]
    ELSE [ok |-> TRUE,
          strategy |-> load_from_snapshot(p,
              [short |-> <<>>, long |-> <<>>, last_signal |-> "Flat",
               bootstrapped |-> FALSE, timestamps |-> <<>>], file)]

\* a field of the params Value is a JSON number, a JSON string or absent
IsCount(x) == x.tag = "int" /\ x.v >= 0

\* a window that is not a count is read as 0
from_value_lenient(raw) ==
    [ok |-> TRUE,
     params |-> [asset |-> "BTC",
                 short_window |-> IF IsCount(raw.short_window) THEN raw.short_window.v ELSE 0,
                 long_window |-> IF IsCount(raw.long_window) THEN raw.long_window.v ELSE 0,
                 trade_size |-> IF raw.trade_size.tag = "str" THEN raw.trade_size.v ELSE "0.01",
                 slippage_bps |-> 5, max_position |-> 2, max_order_rate_per_min |-> 30]]

\* serde_json::from_value::<MaCrossoverParams>: short_window and long_window
\* are required usize, trade_size is a String with a default; the other
\* fields take their defaults
from_value(raw) ==
    IF IsCount(raw.short_window) /\ IsCount(raw.long_window)
       /\ raw.trade_size.tag \in {"str", "missing"}
    THEN [ok |-> TRUE,
          params |-> [asset |-> "BTC", short_window |-> raw.short_window.v,
                      long_window |-> raw.long_window.v,
                      trade_size |-> IF raw.trade_size.tag = "str" THEN raw.trade_size.v
                                     ELSE "0.01",
                      slippage_bps |-> 5, max_position |-> 2,
                      max_order_rate_per_min |-> 30]]
    ELSE [ok |-> FALSE, params |-> None]

\* build, lines 93-119, on parsed parameters: the window check, then the
\* strategy and load_from_snapshot, whose `?` returns the error of a snapshot
\* file that cannot be read; ops lists the accesses to the SnapshotStore
BuildParsed(p, file) ==
    IF ~build(p, NoSnapshot).ok
    THEN [tag |-> "Config", strategy |-> None, params |-> None, ops |-> <<>>]
    ELSE IF file.tag = "Corrupt"
    THEN [tag |-> "Other", strategy |-> None, params |-> None, ops |-> <<"load">>]
    ELSE [tag |-> "Ok", strategy |-> Some(build(p, file).strategy), params |-> Some(p),
          ops |-> <<"load">>]

\* MaCrossoverBuilder::build on the params Value
BuildValue(raw, file) ==
    IF ~from_value(raw).ok
    THEN [tag |-> "Config", strategy |-> None, params |-> None, ops |-> <<>>]
    ELSE BuildParsed(from_value(raw).params, file)

RECURSIVE FeedCloses(_, _, _)
\* the for loop of ensure_bootstrap: update both indicators with every close
FeedCloses(p, st, closes) ==
    IF closes = <<>> THEN st
    ELSE FeedCloses(p,
             [st EXCEPT !.short = update(st.short, p.short_window, Head(closes)).window,
                        !.long = update(st.long, p.long_window, Head(closes)).window],
             Tail(closes))

\* ensure_bootstrap, lines 195-202: the closes have been fed, the strategy is
\* marked bootstrapped and persisted
BootstrapPersist(fed, saved) ==
    [st |-> fed, store |-> saved.store, ok |-> saved.ok, fetched |-> TRUE]

\* the bootstrapped flag is not looked at
ensure_bootstrap_unmarked(p, st, file, fetch, io_ok) ==
    IF is_ready(st.short, p.short_window) /\ is_ready(st.long, p.long_window)
    THEN [st |-> [st EXCEPT !.bootstrapped = TRUE], store |-> file, ok |-> TRUE,
          fetched |-> FALSE]
    ELSE IF ~fetch.ok
    THEN [st |-> st, store |-> file, ok |-> FALSE, fetched |-> TRUE]
    ELSE BootstrapPersist(
             [FeedCloses(p, st, fetch.closes) EXCEPT !.bootstrapped = TRUE],
             persist_state([FeedCloses(p, st, fetch.closes) EXCEPT !.bootstrapped = TRUE],
                           file, io_ok))

\* a failed fetch is taken for a history without candles
ensure_bootstrap_lenient(p, st, file, fetch, io_ok) ==
    IF st.bootstrapped
    THEN [st |-> st, store |-> file, ok |-> TRUE, fetched |-> FALSE]
    ELSE IF is_ready(st.short, p.short_window) /\ is_ready(st.long, p.long_window)
    THEN [st |-> [st EXCEPT !.bootstrapped = TRUE], store |-> file, ok |-> TRUE,
          fetched |-> FALSE]
    ELSE IF ~fetch.ok
    THEN [st |-> st, store |-> file, ok |-> TRUE, fetched |-> TRUE]
    ELSE BootstrapPersist(
             [FeedCloses(p, st, fetch.closes) EXCEPT !.bootstrapped = TRUE],
             persist_state([FeedCloses(p, st, fetch.closes) EXCEPT !.bootstrapped = TRUE],
                           file, io_ok))

\* MaCrossoverStrategy::ensure_bootstrap.  fetch is the result of
\* InfoService::candles_snapshot: [ok, closes]
ensure_bootstrap(p, st, file, fetch, io_ok) ==
    IF st.bootstrapped
    THEN [st |-> st, store |-> file, ok |-> TRUE, fetched |-> FALSE]
    ELSE IF is_ready(st.short, p.short_window) /\ is_ready(st.long, p.long_window)
    THEN [st |-> [st EXCEPT !.bootstrapped = TRUE], store |-> file, ok |-> TRUE,
          fetched |-> FALSE]
    ELSE IF ~fetch.ok
    THEN [st |-> st, store |-> file, ok |-> FALSE, fetched |-> TRUE]
    ELSE BootstrapPersist(
             [FeedCloses(p, st, fetch.closes) EXCEPT !.bootstrapped = TRUE],
             persist_state([FeedCloses(p, st, fetch.closes) EXCEPT !.bootstrapped = TRUE],
                           file, io_ok))

\* the cap itself is still within the limits
within_limits_inclusive(p, net, side, reduce_only) ==
    IF reduce_only THEN TRUE
    ELSE IF side = "Buy" THEN net <= p.max_position
    ELSE net >= 0 - p.max_position

\* MaCrossoverStrategy::within_limits
within_limits(p, net, side, reduce_only) ==
    IF reduce_only THEN TRUE
    ELSE IF side = "Buy" THEN net < p.max_position
    ELSE net > 0 - p.max_position

\* MaCrossoverStrategy::limit_price, in units of 1/10000 of a price tick:
\* price * (1 +- slippage_bps / 10000)
limit_price(p, price, side) ==
    IF side = "Buy" THEN price * (10000 + p.slippage_bps)
    ELSE price * (10000 - p.slippage_bps)

\* the target of evaluate from the two means
TargetSignal(short, long) ==
    IF MeanLess(long, short) THEN "Long"
    ELSE IF MeanLess(short, long) THEN "Short"
    ELSE "Flat"

\* evaluate, lines 237-245: the side of the order and whether it only reduces
SideOf(target_signal) == IF target_signal = "Long" THEN "Buy" ELSE "Sell"

\* no order is marked as reducing
ReduceOnlyNever(side, net) == FALSE

ReduceOnly(side, net) == IF side = "Buy" THEN net < 0 ELSE net > 0

\* the new signal is recorded before the position cap is looked at
EvalEmitSignalFirst(p, st, price, target_signal, net, side, reduce_only) ==
    IF ~within_limits(p, net, side, reduce_only)
    THEN [st |-> [st EXCEPT !.last_signal = target_signal], intent |-> None]
    ELSE [st |-> [st EXCEPT !.last_signal = target_signal],
          intent |-> Some([asset |-> p.asset, side |-> side, size |-> p.trade_size,
                           limit_px |-> limit_price(p, price, side), tif |-> "Ioc",
                           reduce_only |-> reduce_only, client_tag |-> target_signal,
                           cloid |-> None])]

\* evaluate, lines 247-264: the position cap, then the intent and the new signal
EvalEmit(p, st, price, target_signal, net, side, reduce_only) ==
    IF ~within_limits(p, net, side, reduce_only)
    THEN [st |-> st, intent |-> None]
    ELSE [st |-> [st EXCEPT !.last_signal = target_signal],
          intent |-> Some([asset |-> p.asset, side |-> side, size |-> p.trade_size,
                           limit_px |-> limit_price(p, price, side), tif |-> "Ioc",
                           reduce_only |-> reduce_only, client_tag |-> target_signal,
                           cloid |-> None])]

\* evaluate, lines 231-236: the rate limiter has answered; its permits are
\* kept whatever follows
EvalPermit(p, st, price, l, target_signal, permit) ==
    IF ~permit.ok
    THEN [st |-> [st EXCEPT !.timestamps = permit.timestamps], intent |-> None]
    ELSE EvalEmit(p, [st EXCEPT !.timestamps = permit.timestamps], price, target_signal,
                  net_position(l, p.asset), SideOf(target_signal),
                  ReduceOnly(SideOf(target_signal), net_position(l, p.asset)))

\* the last signal is not compared with the target
EvalTargetRepeats(p, st, price, l, t, target_signal) ==
    IF target_signal = "Flat"
    THEN [st |-> st, intent |-> None]
    ELSE EvalPermit(p, st, price, l, target_signal,
                    allow(st.timestamps, t, WindowSeconds, RateLimit(p)))

\* the rate limiter is asked before the target is compared
EvalTargetLimiterFirst(p, st, price, l, t, target_signal) ==
    IF target_signal = st.last_signal \/ target_signal = "Flat"
    THEN [st |-> [st EXCEPT !.timestamps =
                      allow(st.timestamps, t, WindowSeconds, RateLimit(p)).timestamps],
          intent |-> None]
    ELSE EvalPermit(p, st, price, l, target_signal,
                    allow(st.timestamps, t, WindowSeconds, RateLimit(p)))

\* evaluate, lines 219-231: the target signal against the last signal
EvalTarget(p, st, price, l, t, target_signal) ==
    IF target_signal = st.last_signal \/ target_signal = "Flat"
    THEN [st |-> st, intent |-> None]
    ELSE EvalPermit(p, st, price, l, target_signal,
                    allow(st.timestamps, t, WindowSeconds, RateLimit(p)))

\* evaluate, lines 214-217: the long indicator has been updated
EvalLong(p, st, price, l, t, short, g) ==
    IF g.value.tag = "None"
    THEN [st |-> [st EXCEPT !.long = g.window], intent |-> None]
    ELSE EvalTarget(p, [st EXCEPT !.long = g.window], price, l, t,
                    TargetSignal(short, g.value.value))

\* evaluate, lines 210-213: the short indicator has been updated
EvalShort(p, st, price, l, t, s) ==
    IF s.value.tag = "None"
    THEN [st |-> [st EXCEPT !.short = s.window], intent |-> None]
    ELSE EvalLong(p, [st EXCEPT !.short = s.window], price, l, t, s.value.value,
                  update(st.long, p.long_window, price))

\* MaCrossoverStrategy::evaluate at instant t against the ledger l
evaluate(p, st, price, l, t) ==
    EvalShort(p, st, price, l, t, update(st.short, p.short_window, price))

\* every event is taken for the strategy's instrument
matches_any_asset(event, asset) == TRUE

\* matches_asset
matches_asset(event, asset) == event.asset = asset

\* the intent is answered whether or not the snapshot was saved
EventRespondUnsaved(ev, file, fetched, io_ok) ==
    IF ev.intent.tag = "Some"
    THEN [st |-> ev.st, store |-> save(file, build_snapshot(ev.st), io_ok),
          intents |-> <<ev.intent.value>>, ok |-> TRUE, fetched |-> fetched]
    ELSE [st |-> ev.st, store |-> file, intents |-> <<>>, ok |-> TRUE,
          fetched |-> fetched]

\* on_event, lines 145-150: persist and answer with the intent, or answer idle
EventRespond(ev, file, fetched, io_ok) ==
    IF ev.intent.tag = "Some"
    THEN [st |-> ev.st, store |-> save(file, build_snapshot(ev.st), io_ok),
          intents |-> IF io_ok THEN <<ev.intent.value>> ELSE <<>>,
          ok |-> io_ok, fetched |-> fetched]
    ELSE [st |-> ev.st, store |-> file, intents |-> <<>>, ok |-> TRUE,
          fetched |-> fetched]

\* on_event, lines 139-145: `?` on ensure_bootstrap, then evaluate on the price
EventEvaluate(p, boot, price, l, t, io_ok) ==
    IF ~boot.ok
    THEN [st |-> boot.st, store |-> boot.store, intents |-> <<>>, ok |-> FALSE,
          fetched |-> boot.fetched]
    ELSE EventRespond(evaluate(p, boot.st, price, l, t), boot.store, boot.fetched, io_ok)

\* MaCrossoverStrategy::on_event.  Result: the strategy and the snapshot file
\* afterwards, the intents of the StrategyResponse, ok = FALSE for Err, and
\* whether the historical fetch was made.  io_ok holds the outcomes of the
\* save of the bootstrap and of the save after evaluate
on_event(p, st, file, event, l, t, fetch, io_ok) ==
    IF ~matches_asset(event, p.asset)
    THEN [st |-> st, store |-> file, intents |-> <<>>, ok |-> TRUE, fetched |-> FALSE]
    ELSE EventEvaluate(p, ensure_bootstrap(p, st, file, fetch, io_ok[1]),
                       event.price, l, t, io_ok[2])

\* a net position of zero leaves the signal as it was
sync_signal_keeping(p, st, l) ==
    LET net == net_position(l, p.asset)
    IN  [st EXCEPT !.last_signal =
            IF net > 0 THEN "Long" ELSE IF net < 0 THEN "Short" ELSE @]

\* MaCrossoverStrategy::sync_signal_from_positions
sync_signal_from_positions(p, st, l) ==
    LET net == net_position(l, p.asset)
    IN  [st EXCEPT !.last_signal =
            IF net > 0 THEN "Long" ELSE IF net < 0 THEN "Short" ELSE "Flat"]

\* on_fill, lines 160-161: persist the synchronised strategy
FillPersist(synced, file, l, io_ok) ==
    [st |-> synced, store |-> save(file, build_snapshot(synced), io_ok),
     intents |-> <<>>, ok |-> io_ok, seen |-> l]

\* a failed save puts the strategy back as it was before the call
on_fill_reverting(p, st, file, l, io_ok) ==
    IF io_ok
    THEN FillPersist(sync_signal_from_positions(p, st, l), file, l, io_ok)
    ELSE [st |-> st, store |-> file, intents |-> <<>>, ok |-> FALSE, seen |-> l]

\* MaCrossoverStrategy::on_fill against the ledger l it reads through the
\* context; seen is that ledger
on_fill(p, st, file, l, io_ok) ==
    FillPersist(sync_signal_from_positions(p, st, l), file, l, io_ok)

----------------------------------------------------------------------------
(* exchange/order_router.rs                                                *)

\* the strings str::parse::<f64> accepts, among those the model uses
DecimalStrings == {"0.01", "100.5"}

\* str::parse::<f64>
parse_f64(text) == IF text \in DecimalStrings THEN Some(text) ELSE None

\* Uuid::new_v4: a token no earlier call has produced; minted counts the
\* tokens produced so far
new_v4(minted) == <<"v4", minted + 1>>

\* submit, line 81: intent.cloid.unwrap_or_else(Uuid::new_v4)
CloidOf(intent, minted) ==
    IF intent.cloid.tag = "Some" THEN intent.cloid.value ELSE new_v4(minted)

\* submit, lines 100-110: the ClientOrderRequest
OrderRequest(intent, cloid) ==
    [asset |-> intent.asset, is_buy |-> intent.side = "Buy",
     reduce_only |-> intent.reduce_only, limit_px |-> parse_f64(intent.limit_px).value,
     sz |-> parse_f64(intent.size).value, tif |-> intent.tif, cloid |-> Some(cloid)]

\* submit, lines 112-121: the request is handed to ExchangeClient::order;
\* outcome is what happens to it: "ok" and "rejected" are the statuses the
\* exchange answers with, "lost_request" and "lost_response" are errors of
\* the call, the request having reached the exchange in the second case
RouterAnswer(cloid, outcome) ==
    IF outcome = "ok" THEN [tag |-> "Ok", value |-> cloid]
    ELSE [tag |-> "Exchange"]

\* OrderRouter::submit.  Result: the request sent (None when a `?` returned
\* before the request was made), the value returned, and the number of
\* tokens produced so far
submit(intent, minted, outcome) ==
    IF parse_f64(intent.limit_px).tag = "None" \/ parse_f64(intent.size).tag = "None"
    THEN [request |-> None, result |-> [tag |-> "Config"],
          minted |-> IF intent.cloid.tag = "Some" THEN minted ELSE minted + 1]
    ELSE [request |-> Some(OrderRequest(intent, CloidOf(intent, minted))),
          result |-> RouterAnswer(CloidOf(intent, minted), outcome),
          minted |-> IF intent.cloid.tag = "Some" THEN minted ELSE minted + 1]

----------------------------------------------------------------------------
(* exchange/ws_client.rs: the market and fill pipelines                    *)

\* messages of the candle subscription: candles whose close parses and one
\* whose close does not
CandleMsgs ==
    {[kind |-> "Candle", close |-> Some(px)] : px \in Prices}
    \cup {[kind |-> "Candle", close |-> None]}

\* MarketStream::map_candle within the loop of the forwarding task: the event
\* carries the asset of the subscription, not of the message
map_candle(asset, message) ==
    IF message.kind = "Candle" /\ message.close.tag = "Some"
    THEN Some([asset |-> asset, price |-> message.close.value])
    ELSE None

\* broadcast::Sender::send as seen by the engine's receiver: with no receiver
\* the value is dropped; a full ring overwrites the oldest value, which the
\* receiver learns as lag
broadcast_send(q, lag, subscribed, event) ==
    IF ~subscribed THEN [q |-> q, lag |-> lag]
    ELSE IF Len(q) >= Buffer THEN [q |-> Append(Tail(q), event), lag |-> lag + 1]
    ELSE [q |-> Append(q, event), lag |-> lag]

\* the new handle is given the values the ring still holds
subscribe_replaying(published) ==
    [from |-> Len(published),
     q |-> SubSeq(published, IF Len(published) > Buffer THEN Len(published) - Buffer + 1
                             ELSE 1, Len(published)),
     lag |-> 0, got |-> <<>>, lagged |-> FALSE]

\* MarketStream::subscribe (tx.subscribe()) after the values of published
\* have been sent: a receiver that starts behind the last value sent.  got
\* lists what recv has returned to the holder, lagged tells whether recv has
\* ever returned Lagged
subscribe(published) ==
    [from |-> Len(published), q |-> <<>>, lag |-> 0, got |-> <<>>, lagged |-> FALSE]

\* broadcast::Receiver::recv on a handle that is ready: the lag signal first,
\* else the oldest value the handle has not seen
handle_recv(h) ==
    IF h.lag > 0 THEN [h EXCEPT !.lag = 0, !.lagged = TRUE]
    ELSE [h EXCEPT !.q = Tail(@), !.got = Append(@, Head(h.q))]

\* trades of a UserFills message: px and sz are None where the string does not
\* parse as a number
Trade(coin, px, side) == [coin |-> coin, px |-> px, sz |-> Some(1), side |-> side]

\* messages of the user-fills subscription
UserFillMsgs ==
    {[kind |-> "UserFills", fills |-> <<Trade("BTC", Some(1), "B")>>],
     [kind |-> "UserFills",
      fills |-> <<Trade("BTC", None, "B"), Trade("BTC", Some(2), "A")>>],
     [kind |-> "UserFills", fills |-> <<Trade("ETH", Some(1), "B")>>],
     [kind |-> "Other", fills |-> <<>>]}

RECURSIVE MapFills(_)
\* the for loop of the task of user_fills_stream: one FillEvent per trade whose
\* px and sz both parse
MapFills(trades) ==
    IF trades = <<>> THEN <<>>
    ELSE LET tr == Head(trades)
         IN  IF tr.px.tag = "Some" /\ tr.sz.tag = "Some"
             THEN <<[asset |-> tr.coin, price |-> tr.px.value, size |-> tr.sz.value,
                     is_buy |-> tr.side \in {"B", "b", "buy", "Buy", "BUY"}]>>
                  \o MapFills(Tail(trades))
             ELSE MapFills(Tail(trades))

----------------------------------------------------------------------------
(* engine/runner.rs                                                        *)

NoObs ==
    [kind |-> "none", result |-> "ok", intents |-> <<>>, submitted |-> <<>>,
     event |-> None, fill |-> None, before |-> 0, seen |-> 0, fetched |-> FALSE]

\* every intent is handed over twice
SubmitAllTwice(intents, fail_at) ==
    [submitted |-> intents \o intents, ok |-> fail_at = 0 \/ fail_at > Len(intents)]

\* the for loop over resp.intents with `?`: every intent is handed to
\* StrategyContext::submit_intent in order until one submission fails;
\* fail_at = 0 when no submission fails
SubmitAll(intents, fail_at) ==
    IF fail_at = 0 \/ fail_at > Len(intents)
    THEN [submitted |-> intents, ok |-> TRUE]
    ELSE [submitted |-> SubSeq(intents, 1, fail_at), ok |-> FALSE]

\* handle_market_event, lines 71-75: `?` on on_event, then the submissions;
\* the observation notes whether on_event asked for the historical candles
MarketDispatched(event, resp, fail_at) ==
    IF ~resp.ok
    THEN [st |-> resp.st, store |-> resp.store, flow |-> "err",
          obs |-> [NoObs EXCEPT !.kind = "event", !.event = Some(event),
                                !.result = "handler_err", !.fetched = resp.fetched]]
    ELSE [st |-> resp.st, store |-> resp.store,
          flow |-> IF SubmitAll(resp.intents, fail_at).ok THEN "continue" ELSE "err",
          obs |-> [NoObs EXCEPT !.kind = "event", !.event = Some(event),
                                !.result = IF SubmitAll(resp.intents, fail_at).ok
                                           THEN "ok" ELSE "submit_err",
                                !.intents = resp.intents, !.fetched = resp.fetched,
                                !.submitted = SubmitAll(resp.intents, fail_at).submitted]]

\* a lag signal breaks the loop
handle_market_event_lag_ends(p, st, file, l, t, recv, fetch, io_ok, fail_at) ==
    IF recv.tag = "Ok"
    THEN MarketDispatched(recv.event,
                          on_event(p, st, file, recv.event, l, t, fetch, io_ok), fail_at)
    ELSE IF recv.tag = "Closed"
    THEN [st |-> st, store |-> file, flow |-> "break",
          obs |-> [NoObs EXCEPT !.kind = "closed"]]
    ELSE [st |-> st, store |-> file, flow |-> "break",
          obs |-> [NoObs EXCEPT !.kind = "lag"]]

\* Engine::handle_market_event.  recv is the result of market_stream.recv().
\* Result: strategy and snapshot file afterwards, the observation, and
\* flow = "continue" (Ok(true)), "break" (Ok(false)) or "err" (Err)
handle_market_event(p, st, file, l, t, recv, fetch, io_ok, fail_at) ==
    IF recv.tag = "Ok"
    THEN MarketDispatched(recv.event,
                          on_event(p, st, file, recv.event, l, t, fetch, io_ok), fail_at)
    ELSE IF recv.tag = "Closed"
    THEN [st |-> st, store |-> file, flow |-> "break",
          obs |-> [NoObs EXCEPT !.kind = "closed"]]
    ELSE [st |-> st, store |-> file, flow |-> "continue",
          obs |-> [NoObs EXCEPT !.kind = "lag"]]

\* the expected change of the net position of the fill's instrument
SignedSize(fill) == IF fill.is_buy THEN fill.size ELSE 0 - fill.size

\* handle_fill, lines 89-93: `?` on on_fill, then the submissions
FillDispatched(fill, l, after, resp, fail_at) ==
    IF ~resp.ok
    THEN [st |-> resp.st, store |-> resp.store, ledger |-> after, flow |-> "err",
          obs |-> [NoObs EXCEPT !.kind = "fill", !.fill = Some(fill),
                                !.before = net_position(l, fill.asset),
                                !.seen = net_position(resp.seen, fill.asset),
                                !.result = "handler_err"]]
    ELSE [st |-> resp.st, store |-> resp.store, ledger |-> after,
          flow |-> IF SubmitAll(resp.intents, fail_at).ok THEN "continue" ELSE "err",
          obs |-> [NoObs EXCEPT !.kind = "fill", !.fill = Some(fill),
                                !.before = net_position(l, fill.asset),
                                !.seen = net_position(resp.seen, fill.asset),
                                !.result = IF SubmitAll(resp.intents, fail_at).ok
                                           THEN "ok" ELSE "submit_err",
                                !.intents = resp.intents,
                                !.submitted = SubmitAll(resp.intents, fail_at).submitted]]

\* on_fill is dispatched with the ledger as it was before apply_fill
FillAppliedLate(p, st, file, l, fill, after, io_ok, fail_at) ==
    FillDispatched(fill, l, after, on_fill(p, st, file, l, io_ok), fail_at)

\* handle_fill, lines 88-89: apply_fill, then on_fill with the context, which
\* reads the same PositionManager
FillApplied(p, st, file, l, fill, after, io_ok, fail_at) ==
    FillDispatched(fill, l, after, on_fill(p, st, file, after, io_ok), fail_at)

\* Engine::handle_fill.  recv is the result of fill_rx.recv(): Some(fill) or None
handle_fill(p, st, file, l, recv, io_ok, fail_at) ==
    IF recv.tag = "Some"
    THEN FillApplied(p, st, file, l, recv.value, apply_fill(l, recv.value),
                     io_ok, fail_at)
    ELSE [st |-> st, store |-> file, ledger |-> l, flow |-> "drop_fills",
          obs |-> [NoObs EXCEPT !.kind = "fill_closed"]]

----------------------------------------------------------------------------
(* The process: app.rs wires the pipelines, builds the strategy and runs   *)
(* the engine                                                              *)

\* the strategy configurations explored
ParamChoices ==
    {[asset |-> "BTC", short_window |-> 1, long_window |-> 2, trade_size |-> 1,
      slippage_bps |-> 5, max_position |-> 2, max_order_rate_per_min |-> 1]}

\* results of InfoService::candles_snapshot: an error, or the closes of the
\* candles the exchange returns
FetchResults ==
    {[ok |-> FALSE, closes |-> <<>>]}
    \cup {[ok |-> TRUE, closes |-> c] : c \in {<<>>, <<1>>, <<1, 2>>}}

\* the request is made only by a strategy that is neither bootstrapped nor
\* ready; otherwise there is no result to choose
Fetches(p, st) ==
    IF st.bootstrapped \/ (is_ready(st.short, p.short_window) /\ is_ready(st.long, p.long_window))
    THEN {[ok |-> TRUE, closes |-> <<>>]}
    ELSE FetchResults

\* outcomes of the (up to two) SnapshotStore::save calls of one handler call
IoOutcomes == {<<TRUE, TRUE>>, <<TRUE, FALSE>>, <<FALSE, TRUE>>}

\* the callers of PositionManager::apply_fill
WriterIds == 1..MaxWriters

\* no call of apply_fill or snapshot in progress; committed holds, for each
\* instrument, the values its entry has had between calls
ConcIdle ==
    [pc |-> [w \in WriterIds |-> "idle"], fill |-> [w \in WriterIds |-> None],
     lock |-> [a \in Assets |-> 0],
     reader |-> [pc |-> "idle", todo |-> <<>>, size |-> 0, out |-> <<>>],
     committed |-> [a \in Assets |-> {NoPosition}]]

\* no submit call made: calls lists, for each call, the intent, the request
\* sent and the result; executed lists the requests the exchange has executed
RouterIdle == [calls |-> <<>>, minted |-> 0, executed |-> <<>>]

\* nothing published, no handle
FeedIdle == [published |-> <<>>, handles |-> <<>>]

\* a MovingAverage::new(1), no thread, no close given, no store access
UnitsIdle ==
    /\ ma = [period |-> 1, window |-> <<>>, pushed |-> <<>>, op |-> "new", arg |-> <<>>,
             value |-> None]
    /\ conc = ConcIdle
    /\ trace = <<>>
    /\ storeOps = <<>>
    /\ router = RouterIdle
    /\ feed = FeedIdle

\* the component variables at rest
AuxIdle ==
    /\ limiter = [max_per_minute |-> 1, timestamps |-> <<>>, window |-> WindowSeconds]
    /\ granted = <<>>
    /\ fillLog = <<>>
    /\ twin = [forked |-> FALSE, st |-> None, store |-> NoSnapshot, intents |-> <<>>]
    /\ UnitsIdle

Init ==
    /\ params \in ParamChoices
    /\ strat = build(params, NoSnapshot).strategy
    /\ store = NoSnapshot
    /\ ledger = EmptyLedger
    /\ now = 0
    /\ upstreamQ = <<>>
    /\ upstreamClosed = FALSE
    /\ fwdPc = "running"
    /\ mktQ = <<>>
    /\ mktLag = 0
    /\ rawFillQ = <<>>
    /\ fillQ = <<>>
    /\ engineFills \in {"some", "none"}
    /\ rawFillClosed = (engineFills = "none")
    /\ fillTaskPc = IF engineFills = "some" THEN "running" ELSE "absent"
    /\ enginePc = "start"
    /\ obs = NoObs
    /\ sent = [mkt |-> 0, fill |-> 0]
    /\ restarts = 0
    /\ AuxIdle

Running == enginePc \in {"start", "select"}

\* time passes; the clock is read only by the rate limiter, which compares it
\* with the permits it has recorded, so time is let pass once there is one
Tick ==
    /\ Running
    /\ strat.timestamps # <<>>
    /\ now + ClockStep <= MaxClock
    /\ now' = now + ClockStep
    /\ UNCHANGED <<params, strat, store, ledger, upstreamQ, upstreamClosed, fwdPc,
                   mktQ, mktLag, rawFillQ, rawFillClosed, fillTaskPc, fillQ,
                   engineFills, enginePc, obs, sent, restarts, aux>>

\* the exchange client delivers a message on the candle subscription
ExchangeCandle ==
    /\ Running
    /\ ~upstreamClosed
    /\ sent.mkt < MaxMarketMsgs
    /\ Len(upstreamQ) < MaxPending
    /\ \E m \in CandleMsgs : upstreamQ' = Append(upstreamQ, m)
    /\ sent' = [sent EXCEPT !.mkt = @ + 1]
    /\ UNCHANGED <<params, strat, store, ledger, now, upstreamClosed, fwdPc,
                   mktQ, mktLag, rawFillQ, rawFillClosed, fillTaskPc, fillQ,
                   engineFills, enginePc, obs, restarts, aux>>

\* the exchange client drops the sender of the candle subscription
ExchangeCloseCandles ==
    /\ Running
    /\ ~upstreamClosed
    /\ upstreamClosed' = TRUE
    /\ sent' = [sent EXCEPT !.mkt = MaxMarketMsgs]
    /\ UNCHANGED <<params, strat, store, ledger, now, upstreamQ, fwdPc,
                   mktQ, mktLag, rawFillQ, rawFillClosed, fillTaskPc, fillQ,
                   engineFills, enginePc, obs, restarts, aux>>

\* the task of connect_candles: one iteration of `while let Some(message)`
ForwardCandle ==
    /\ fwdPc = "running"
    /\ upstreamQ # <<>>
    /\ LET event == map_candle(params.asset, Head(upstreamQ))
           out == IF event.tag = "Some"
                  THEN broadcast_send(mktQ, mktLag, enginePc = "select", event.value)
                  ELSE [q |-> mktQ, lag |-> mktLag]
       IN  /\ mktQ' = out.q
           /\ mktLag' = out.lag
    /\ upstreamQ' = Tail(upstreamQ)
    /\ UNCHANGED <<params, strat, store, ledger, now, upstreamClosed, fwdPc,
                   rawFillQ, rawFillClosed, fillTaskPc, fillQ,
                   engineFills, enginePc, obs, sent, restarts, aux>>

\* the task of connect_candles: rx.recv() returns None, the loop ends and the
\* task drops tx_clone
ForwarderExit ==
    /\ fwdPc = "running"
    /\ upstreamQ = <<>>
    /\ upstreamClosed
    /\ fwdPc' = "exited"
    /\ UNCHANGED <<params, strat, store, ledger, now, upstreamQ, upstreamClosed,
                   mktQ, mktLag, rawFillQ, rawFillClosed, fillTaskPc, fillQ,
                   engineFills, enginePc, obs, sent, restarts, aux>>

\* the exchange client delivers a message on the user-fills subscription
ExchangeUserFills ==
    /\ Running
    /\ ~rawFillClosed
    /\ sent.fill < MaxFillMsgs
    /\ Len(rawFillQ) < MaxPending
    /\ \E m \in UserFillMsgs : rawFillQ' = Append(rawFillQ, m)
    /\ sent' = [sent EXCEPT !.fill = @ + 1]
    /\ UNCHANGED <<params, strat, store, ledger, now, upstreamQ, upstreamClosed, fwdPc,
                   mktQ, mktLag, rawFillClosed, fillTaskPc, fillQ,
                   engineFills, enginePc, obs, restarts, aux>>

\* the exchange client drops the sender of the user-fills subscription
ExchangeCloseFills ==
    /\ Running
    /\ ~rawFillClosed
    /\ rawFillClosed' = TRUE
    /\ sent' = [sent EXCEPT !.fill = MaxFillMsgs]
    /\ UNCHANGED <<params, strat, store, ledger, now, upstreamQ, upstreamClosed, fwdPc,
                   mktQ, mktLag, rawFillQ, fillTaskPc, fillQ,
                   engineFills, enginePc, obs, restarts, aux>>

\* the task of user_fills_stream: one iteration of `while let Some(message)`;
\* tx.send fails silently once the engine has dropped the receiver
ForwardFills ==
    /\ Running
    /\ fillTaskPc = "running"
    /\ rawFillQ # <<>>
    /\ LET m == Head(rawFillQ)
       IN  fillQ' = IF m.kind = "UserFills" /\ engineFills = "some"
                    THEN fillQ \o MapFills(m.fills)
                    ELSE fillQ
    /\ rawFillQ' = Tail(rawFillQ)
    /\ UNCHANGED <<params, strat, store, ledger, now, upstreamQ, upstreamClosed, fwdPc,
                   mktQ, mktLag, rawFillClosed, fillTaskPc,
                   engineFills, enginePc, obs, sent, restarts, aux>>

\* the task of user_fills_stream: raw_rx.recv() returns None, the task ends and
\* drops tx
FillTaskExit ==
    /\ Running
    /\ fillTaskPc = "running"
    /\ rawFillQ = <<>>
    /\ rawFillClosed
    /\ fillTaskPc' = "exited"
    /\ UNCHANGED <<params, strat, store, ledger, now, upstreamQ, upstreamClosed, fwdPc,
                   mktQ, mktLag, rawFillQ, rawFillClosed, fillQ,
                   engineFills, enginePc, obs, sent, restarts, aux>>

\* Engine::run, line 38: market_stream = self.feed.subscribe(); the receiver
\* sees only what is sent from now on
EngineStart ==
    /\ enginePc = "start"
    /\ enginePc' = "select"
    /\ mktQ' = <<>>
    /\ mktLag' = 0
    /\ UNCHANGED <<params, strat, store, ledger, now, upstreamQ, upstreamClosed, fwdPc,
                   rawFillQ, rawFillClosed, fillTaskPc, fillQ,
                   engineFills, obs, sent, restarts, aux>>

\* live broadcast::Sender handles: MarketStream.tx, owned through Engine.feed for
\* as long as run has not returned, and tx_clone, owned by the forwarding task
Senders ==
    (IF Running THEN 1 ELSE 0) + (IF fwdPc = "running" THEN 1 ELSE 0)

\* the market receiver is polled only once the fill receiver has answered
MarketReadyBehindFills ==
    /\ mktLag > 0 \/ mktQ # <<>> \/ Senders = 0
    /\ engineFills = "none" \/ fillQ # <<>> \/ fillTaskPc = "exited"

\* broadcast::Receiver::recv is ready
MarketReady == mktLag > 0 \/ mktQ # <<>> \/ Senders = 0

\* the value market_stream.recv() resolves to
MarketRecv ==
    IF mktLag > 0 THEN [tag |-> "Lagged", skipped |-> mktLag]
    ELSE IF mktQ # <<>> THEN [tag |-> "Ok", event |-> Head(mktQ)]
    ELSE [tag |-> "Closed"]

\* mpsc::UnboundedReceiver::recv is ready: a value is queued, or every sender
\* is gone
FillReady == fillQ # <<>> \/ fillTaskPc = "exited"

\* the newest queued fill is taken
FillRecvNewest == IF fillQ # <<>> THEN Some(fillQ[Len(fillQ)]) ELSE None

\* the value fill_rx.recv() resolves to
FillRecv == IF fillQ # <<>> THEN Some(Head(fillQ)) ELSE None

\* Engine::run returns: the engine, and with it the feed and the MarketStream,
\* is dropped, and Drop for MarketStream aborts the forwarding task
TaskAfter(flow) ==
    IF flow \in {"break", "err"} /\ fwdPc = "running" THEN "aborted" ELSE fwdPc

\* leaving the loop on closure is reported as an error
PcAfterBreakIsError(flow) ==
    IF flow \in {"break", "err"} THEN "err" ELSE "select"

\* the closure of the fill channel ends the run
PcAfterFillCloseEnds(flow) ==
    IF flow \in {"break", "drop_fills"} THEN "ok" ELSE IF flow = "err" THEN "err" ELSE "select"

\* run, lines 45-61: `?` returns the error, Ok(false) of handle_market_event
\* breaks the loop, anything else goes round again
PcAfter(flow) ==
    IF flow = "break" THEN "ok" ELSE IF flow = "err" THEN "err" ELSE "select"

\* the engine after handle_market_event has returned r
AfterMarket(r) ==
    /\ strat' = r.st
    /\ store' = r.store
    /\ obs' = r.obs
    /\ enginePc' = PcAfter(r.flow)
    /\ fwdPc' = TaskAfter(r.flow)

\* Engine::run: the market branch of the select (or the only await when
\* self.fills is None) and handle_market_event
EngineRecvMarket ==
    /\ enginePc = "select"
    /\ MarketReady
    /\ \E fetch \in Fetches(params, strat), io_ok \in IoOutcomes, fail_at \in 0..1 :
         AfterMarket(handle_market_event(params, strat, store, ledger, now,
                                         MarketRecv, fetch, io_ok, fail_at))
    /\ mktLag' = 0
    /\ mktQ' = IF mktLag = 0 /\ mktQ # <<>> THEN Tail(mktQ) ELSE mktQ
    /\ UNCHANGED <<params, ledger, now, upstreamQ, upstreamClosed,
                   rawFillQ, rawFillClosed, fillTaskPc, fillQ,
                   engineFills, sent, restarts, aux>>

\* run keeps the closed fill receiver
AfterFillKeepsReceiver(r) ==
    /\ strat' = r.st
    /\ store' = r.store
    /\ ledger' = r.ledger
    /\ obs' = r.obs
    /\ enginePc' = PcAfter(r.flow)
    /\ fwdPc' = TaskAfter(r.flow)
    /\ engineFills' = engineFills

\* the engine after handle_fill has returned r; Ok(false) makes run set
\* self.fills = None
AfterFill(r) ==
    /\ strat' = r.st
    /\ store' = r.store
    /\ ledger' = r.ledger
    /\ obs' = r.obs
    /\ enginePc' = PcAfter(r.flow)
    /\ fwdPc' = TaskAfter(r.flow)
    /\ engineFills' = IF r.flow = "drop_fills" THEN "none" ELSE engineFills

\* Engine::run: the fill branch of the select and handle_fill
EngineRecvFill ==
    /\ enginePc = "select"
    /\ engineFills = "some"
    /\ FillReady
    /\ \E io_ok \in BOOLEAN, fail_at \in 0..1 :
         AfterFill(handle_fill(params, strat, store, ledger, FillRecv, io_ok, fail_at))
    /\ fillQ' = IF fillQ # <<>> THEN Tail(fillQ) ELSE fillQ
    /\ UNCHANGED <<params, now, upstreamQ, upstreamClosed, mktQ, mktLag,
                   rawFillQ, rawFillClosed, fillTaskPc, sent, restarts, aux>>

Next ==
    \/ Tick
    \/ ExchangeCandle
    \/ ExchangeCloseCandles
    \/ ForwardCandle
    \/ ForwarderExit
    \/ ExchangeUserFills
    \/ ExchangeCloseFills
    \/ ForwardFills
    \/ FillTaskExit
    \/ EngineStart
    \/ EngineRecvMarket
    \/ EngineRecvFill

Spec == Init /\ [][Next]_vars

\* the tokio runtime polls every task that is ready: the engine and the two
\* forwarding tasks each take their next step when they can; the exchange
\* owes nothing
FairSpec ==
    /\ Spec
    /\ WF_vars(EngineStart \/ EngineRecvMarket \/ EngineRecvFill)
    /\ WF_vars(ForwardCandle \/ ForwarderExit)
    /\ WF_vars(ForwardFills \/ FillTaskExit)

----------------------------------------------------------------------------
(* The loop of Engine::run over whatever its two receivers can return: the *)
(* channels are left open, every result of recv() is offered               *)

\* the variables of the pipelines, which this specification leaves alone
pipes == <<upstreamQ, upstreamClosed, mktQ, mktLag, rawFillQ, rawFillClosed,
           fillTaskPc, fillQ>>

\* results of broadcast::Receiver::recv
MarketRecvs ==
    {[tag |-> "Ok", event |-> [asset |-> a, price |-> px]] : a \in Assets, px \in Prices}
    \cup {[tag |-> "Closed"], [tag |-> "Lagged", skipped |-> 1]}

FillEvents == [asset : Assets, price : Prices, size : Sizes, is_buy : BOOLEAN]

\* results of mpsc::UnboundedReceiver::recv
FillRecvs == {Some(f) : f \in FillEvents} \cup {None}

HandlerInit ==
    /\ params \in ParamChoices
    /\ strat = build(params, NoSnapshot).strategy
    /\ store = NoSnapshot
    /\ ledger = EmptyLedger
    /\ now = 0
    /\ upstreamQ = <<>>
    /\ upstreamClosed = FALSE
    /\ fwdPc = "running"
    /\ mktQ = <<>>
    /\ mktLag = 0
    /\ rawFillQ = <<>>
    /\ fillQ = <<>>
    /\ engineFills \in {"some", "none"}
    /\ rawFillClosed = (engineFills = "none")
    /\ fillTaskPc = IF engineFills = "some" THEN "running" ELSE "absent"
    /\ enginePc = "select"
    /\ obs = NoObs
    /\ sent = [mkt |-> 0, fill |-> 0]
    /\ restarts = 0
    /\ AuxIdle

\* run: the market branch, with any result of market_stream.recv()
DispatchMarket ==
    /\ enginePc = "select"
    /\ sent.mkt < MaxEvents
    /\ \E recv \in MarketRecvs, fetch \in Fetches(params, strat),
          io_ok \in IoOutcomes, fail_at \in 0..1 :
         AfterMarket(handle_market_event(params, strat, store, ledger, now,
                                         recv, fetch, io_ok, fail_at))
    /\ sent' = [sent EXCEPT !.mkt = @ + 1]
    /\ UNCHANGED <<params, ledger, now, pipes, engineFills, restarts, aux>>

\* run: the fill branch, with any result of fill_rx.recv()
DispatchFill ==
    /\ enginePc = "select"
    /\ engineFills = "some"
    /\ sent.fill < MaxFills
    /\ \E recv \in FillRecvs, io_ok \in BOOLEAN, fail_at \in 0..1 :
         AfterFill(handle_fill(params, strat, store, ledger, recv, io_ok, fail_at))
    /\ sent' = [sent EXCEPT !.fill = @ + 1]
    /\ UNCHANGED <<params, now, pipes, restarts, aux>>

HandlerNext ==
    \/ Tick
    \/ DispatchMarket
    \/ DispatchFill

HandlerSpec == HandlerInit /\ [][HandlerNext]_vars

----------------------------------------------------------------------------
(* The select of Engine::run over what its two receivers already hold: no  *)
(* producer runs, both channels stay open                                  *)

\* the events the forwarding task can put on the broadcast channel
PipelineEvents ==
    {map_candle(p.asset, m).value :
        p \in ParamChoices, m \in {c \in CandleMsgs : c.close.tag = "Some"}}

\* the fills the fill task can put on the fill channel
PipelineFills ==
    UNION {{MapFills(m.fills)[i] : i \in 1..Len(MapFills(m.fills))} : m \in UserFillMsgs}

\* the sequences over S of length at most n
SeqsUpTo(S, n) == UNION {[1..k -> S] : k \in 0..n}

\* the engine in its select with up to n events waiting in each receiver
SelectInitUpTo(n) ==
    /\ params \in ParamChoices
    /\ strat = build(params, NoSnapshot).strategy
    /\ store = NoSnapshot
    /\ ledger = EmptyLedger
    /\ now = 0
    /\ upstreamQ = <<>>
    /\ upstreamClosed = FALSE
    /\ fwdPc = "running"
    /\ mktQ \in SeqsUpTo(PipelineEvents, n)
    /\ mktLag = 0
    /\ rawFillQ = <<>>
    /\ rawFillClosed = FALSE
    /\ fillTaskPc = "running"
    /\ fillQ \in SeqsUpTo(PipelineFills, n)
    /\ engineFills = "some"
    /\ enginePc = "select"
    /\ obs = NoObs
    /\ sent = [mkt |-> 0, fill |-> 0]
    /\ restarts = 0
    /\ AuxIdle

SelectInit == SelectInitUpTo(MaxQueued)

SelectNext ==
    \/ EngineRecvMarket
    \/ EngineRecvFill

SelectSpec == SelectInit /\ [][SelectNext]_vars

\* the engine's task is polled whenever one of its receivers is ready
FairSelectInit == SelectInitUpTo(MaxWaiting)

FairSelectSpec ==
    /\ FairSelectInit
    /\ [][SelectNext]_vars
    /\ WF_vars(EngineRecvMarket \/ EngineRecvFill)

----------------------------------------------------------------------------
(* The position ledger on its own: any sequence of apply_fill calls        *)

\* the engine at rest
EngineIdle ==
    /\ params \in ParamChoices
    /\ strat = build(params, NoSnapshot).strategy
    /\ store = NoSnapshot
    /\ upstreamQ = <<>>
    /\ upstreamClosed = FALSE
    /\ fwdPc = "running"
    /\ mktQ = <<>>
    /\ mktLag = 0
    /\ rawFillQ = <<>>
    /\ rawFillClosed = TRUE
    /\ fillTaskPc = "absent"
    /\ fillQ = <<>>
    /\ engineFills = "none"
    /\ enginePc = "start"
    /\ obs = NoObs
    /\ sent = [mkt |-> 0, fill |-> 0]
    /\ restarts = 0

engine == <<params, strat, store, upstreamQ, upstreamClosed, fwdPc, mktQ, mktLag,
            rawFillQ, rawFillClosed, fillTaskPc, fillQ, engineFills, enginePc,
            obs, sent, restarts>>

LedgerInit ==
    /\ EngineIdle
    /\ ledger = EmptyLedger
    /\ now = 0
    /\ AuxIdle

\* one call of PositionManager::apply_fill, recorded
LedgerApply ==
    /\ Len(fillLog) < MaxApplied
    /\ \E fill \in FillEvents :
         /\ ledger' = apply_fill(ledger, fill)
         /\ fillLog' = Append(fillLog, fill)
    /\ UNCHANGED <<engine, now, limiter, granted, twin, units>>

LedgerNext == LedgerApply

LedgerSpec == LedgerInit /\ [][LedgerNext]_vars

----------------------------------------------------------------------------
(* The position ledger shared by threads: apply_fill calls and a snapshot  *)
(* call run concurrently, each a sequence of steps on the DashMap          *)

\* the fills the callers apply
ConcFills == {f \in FillEvents : f.size = 1}

\* the orders in which the iterator of snapshot can visit the shards
IterOrders == {<<"BTC", "ETH">>, <<"ETH", "BTC">>}

ConcurrentInit ==
    /\ EngineIdle
    /\ ledger = EmptyLedger
    /\ now = 0
    /\ AuxIdle

\* the number of apply_fill calls in progress
InProgress == Cardinality({w \in WriterIds : conc.pc[w] # "idle"})

\* apply_fill, lines 39-40: entry(asset) returns holding the lock
ConcApplyEntry ==
    /\ Len(fillLog) + InProgress < MaxConcurrentFills
    /\ \E w \in WriterIds, fill \in ConcFills :
         /\ conc.pc[w] = "idle"
         /\ LockFree(conc.lock, fill.asset)
         /\ conc' = [conc EXCEPT !.pc[w] = "entry", !.fill[w] = Some(fill),
                                  !.lock[fill.asset] = w]
    /\ UNCHANGED <<engine, ledger, now, limiter, granted, fillLog, twin,
                   ma, trace, storeOps, router, feed>>

\* apply_fill, lines 42-43, 46 and 49-53: the size of an occupied entry is
\* changed, or a vacant entry is filled with the whole Position
ConcModifySize ==
    /\ \E w \in WriterIds :
         /\ conc.pc[w] = "entry"
         /\ ledger' =
               IF ledger[conc.fill[w].value.asset].tag = "Some"
               THEN [ledger EXCEPT ![conc.fill[w].value.asset].size =
                                       @ + SignedSize(conc.fill[w].value)]
               ELSE [ledger EXCEPT ![conc.fill[w].value.asset] =
                        Position(conc.fill[w].value.asset, SignedSize(conc.fill[w].value),
                                 conc.fill[w].value.price)]
         /\ conc' = [conc EXCEPT !.pc[w] =
                        IF ledger[conc.fill[w].value.asset].tag = "Some"
                           /\ conc.fill[w].value.is_buy
                        THEN "sized" ELSE "done"]
    /\ UNCHANGED <<engine, now, limiter, granted, fillLog, twin, ma, trace, storeOps, router, feed>>

\* apply_fill, line 44: the entry price of an occupied entry after a buy
ConcModifyPrice ==
    /\ \E w \in WriterIds :
         /\ conc.pc[w] = "sized"
         /\ ledger' = [ledger EXCEPT ![conc.fill[w].value.asset].entry_price =
                                         conc.fill[w].value.price]
         /\ conc' = [conc EXCEPT !.pc[w] = "done"]
    /\ UNCHANGED <<engine, now, limiter, granted, fillLog, twin, ma, trace, storeOps, router, feed>>

\* apply_fill, line 53: the entry is dropped and with it the lock; the call
\* has returned
ConcRelease ==
    /\ \E w \in WriterIds :
         /\ conc.pc[w] = "done"
         /\ conc' = [conc EXCEPT !.pc[w] = "idle", !.fill[w] = None,
                                  !.lock[conc.fill[w].value.asset] = 0,
                                  !.committed[conc.fill[w].value.asset] =
                                      @ \cup {ledger[conc.fill[w].value.asset]}]
         /\ fillLog' = Append(fillLog, conc.fill[w].value)
    /\ UNCHANGED <<engine, ledger, now, limiter, granted, twin, ma, trace, storeOps, router, feed>>

\* snapshot, line 34: iter()
SnapStart ==
    /\ conc.reader.pc = "idle"
    /\ \E order \in IterOrders :
         conc' = [conc EXCEPT !.reader = [pc |-> "iter", todo |-> order, size |-> 0,
                                          out |-> <<>>]]
    /\ UNCHANGED <<engine, ledger, now, limiter, granted, fillLog, twin,
                   ma, trace, storeOps, router, feed>>

\* snapshot, line 34: the iterator reaches a shard, takes its read lock, and
\* clone starts with the size
SnapLock ==
    /\ conc.reader.pc = "iter"
    /\ ReadFree(conc.lock, Head(conc.reader.todo))
    /\ conc' = [conc EXCEPT !.lock[Head(conc.reader.todo)] = -1,
                             !.reader.pc = "cloning",
                             !.reader.size = net_position(ledger, Head(conc.reader.todo))]
    /\ UNCHANGED <<engine, ledger, now, limiter, granted, fillLog, twin,
                   ma, trace, storeOps, router, feed>>

\* snapshot, line 34: clone ends with the entry price, the Position is
\* collected and the iterator leaves the shard
SnapClone ==
    /\ conc.reader.pc = "cloning"
    /\ conc' = [conc EXCEPT
                  !.lock[Head(conc.reader.todo)] = 0,
                  !.reader.pc = IF Tail(conc.reader.todo) = <<>> THEN "idle" ELSE "iter",
                  !.reader.todo = Tail(@),
                  !.reader.out =
                      IF ledger[Head(conc.reader.todo)].tag = "Some"
                      THEN Append(@, Position(Head(conc.reader.todo), conc.reader.size,
                                              ledger[Head(conc.reader.todo)].entry_price))
                      ELSE @]
    /\ UNCHANGED <<engine, ledger, now, limiter, granted, fillLog, twin,
                   ma, trace, storeOps, router, feed>>

ConcurrentNext ==
    \/ ConcApplyEntry
    \/ ConcModifySize
    \/ ConcModifyPrice
    \/ ConcRelease
    \/ SnapStart
    \/ SnapLock
    \/ SnapClone

ConcurrentSpec == ConcurrentInit /\ [][ConcurrentNext]_vars

----------------------------------------------------------------------------
(* The builder on its own: build is called once on a params Value, with    *)
(* the snapshot directory in any condition                                 *)

\* values of a window field: an integer, a string, or the field is absent
RawWindows ==
    {[tag |-> "int", v |-> n] : n \in -1..MaxRawWindow}
    \cup {[tag |-> "str", v |-> "2"], [tag |-> "missing"]}

\* values of the trade_size field
RawSizes ==
    {[tag |-> "str", v |-> "0.01"], [tag |-> "str", v |-> "abc"],
     [tag |-> "int", v |-> 1], [tag |-> "missing"]}

\* the params Value of the strategy configuration
RawParams == [short_window : RawWindows, long_window : RawWindows, trade_size : RawSizes]

\* the snapshot file of the strategy: absent, written by an earlier run, or
\* not readable as a snapshot
SnapshotFiles ==
    {NoSnapshot, [tag |-> "Corrupt"],
     [tag |-> "Some", short_values |-> <<1>>, long_values |-> <<1, 2>>,
      last_signal |-> "Long"]}

BuildInit ==
    /\ params \in RawParams
    /\ strat = None
    /\ store \in SnapshotFiles
    /\ ledger = EmptyLedger
    /\ now = 0
    /\ upstreamQ = <<>>
    /\ upstreamClosed = FALSE
    /\ fwdPc = "running"
    /\ mktQ = <<>>
    /\ mktLag = 0
    /\ rawFillQ = <<>>
    /\ rawFillClosed = TRUE
    /\ fillTaskPc = "absent"
    /\ fillQ = <<>>
    /\ engineFills = "none"
    /\ enginePc = "build"
    /\ obs = NoObs
    /\ sent = [mkt |-> 0, fill |-> 0]
    /\ restarts = 0
    /\ AuxIdle

\* the process after build has returned r: on Ok the strategy exists and the
\* engine can start, otherwise run returns the error
Built(r) ==
    /\ strat' = r.strategy
    /\ params' = IF r.tag = "Ok" THEN r.params.value ELSE params
    /\ storeOps' = r.ops
    /\ obs' = [NoObs EXCEPT !.kind = "build", !.result = r.tag]
    /\ enginePc' = IF r.tag = "Ok" THEN "start" ELSE "err"

\* app.rs, line 60: build_strategy with the configured params
BuildCall ==
    /\ enginePc = "build"
    /\ Built(BuildValue(params, store))
    /\ UNCHANGED <<store, ledger, now, pipes, fwdPc, engineFills, sent, restarts,
                   limiter, granted, fillLog, twin, ma, conc, trace, router, feed>>

BuildNext == BuildCall

BuildSpec == BuildInit /\ [][BuildNext]_vars

----------------------------------------------------------------------------
(* The order router on its own: any sequence of submit calls, with any     *)
(* fate of the request at the exchange                                     *)

\* the intents handed to submit: as the strategy builds them (cloid None) or
\* with a token set by the caller; a size that is no number
RouterIntents ==
    {[asset |-> "BTC", side |-> side, size |-> size, limit_px |-> "100.5",
      tif |-> "Ioc", reduce_only |-> FALSE, client_tag |-> "ma_cross", cloid |-> cloid] :
        side \in {"Buy", "Sell"}, size \in {"0.01", "abc"},
        cloid \in {None, Some(<<"caller", 1>>)}}

RouterOutcomes == {"ok", "rejected", "lost_request", "lost_response"}

RouterInit ==
    /\ EngineIdle
    /\ ledger = EmptyLedger
    /\ now = 0
    /\ AuxIdle

\* the exchange executes an order that reaches it and that it accepts, once
\* for each token
Executes(request, outcome, executed) ==
    /\ outcome \in {"ok", "lost_response"}
    /\ \A i \in 1..Len(executed) : executed[i].cloid # request.cloid

\* the router and the exchange after submit has returned r
RouterSubmitted(intent, outcome, r) ==
    router' = [calls |-> Append(router.calls,
                            [intent |-> intent, request |-> r.request, result |-> r.result,
                             executed |-> r.request.tag = "Some"
                                          /\ Executes(r.request.value, outcome, router.executed)]),
               minted |-> r.minted,
               executed |-> IF r.request.tag = "Some"
                               /\ Executes(r.request.value, outcome, router.executed)
                            THEN Append(router.executed, r.request.value)
                            ELSE router.executed]

\* one call of OrderRouter::submit
RouterSubmit ==
    /\ Len(router.calls) < MaxSubmits
    /\ \E intent \in RouterIntents, outcome \in RouterOutcomes :
         RouterSubmitted(intent, outcome, submit(intent, router.minted, outcome))
    /\ UNCHANGED <<engine, ledger, now, limiter, granted, fillLog, twin,
                   ma, conc, trace, storeOps, feed>>

RouterNext == RouterSubmit

RouterSpec == RouterInit /\ [][RouterNext]_vars

----------------------------------------------------------------------------
(* The feed coordinator on its own: events are sent into the broadcast     *)
(* channel, handles are taken with subscribe at any moment, and each       *)
(* holder receives at its own pace                                         *)

FeedInit ==
    /\ EngineIdle
    /\ ledger = EmptyLedger
    /\ now = 0
    /\ AuxIdle

\* the handle after a value has been sent
HandleSent(h, value) ==
    [h EXCEPT !.q = broadcast_send(h.q, h.lag, TRUE, value).q,
              !.lag = broadcast_send(h.q, h.lag, TRUE, value).lag]

\* connect_candles, line 35: tx_clone.send(event); the value is numbered in
\* the order of sending
FeedPublish ==
    /\ Len(feed.published) < MaxPublished
    /\ \E px \in Prices :
         feed' = [published |-> Append(feed.published,
                                       [seq |-> Len(feed.published) + 1, asset |-> "BTC",
                                        price |-> px]),
                  handles |-> [i \in 1..Len(feed.handles) |->
                                 HandleSent(feed.handles[i],
                                            [seq |-> Len(feed.published) + 1,
                                             asset |-> "BTC", price |-> px])]]
    /\ UNCHANGED <<engine, ledger, now, limiter, granted, fillLog, twin,
                   ma, conc, trace, storeOps, router>>

\* FeedCoordinator::subscribe
FeedSubscribe ==
    /\ Len(feed.handles) < MaxHandles
    /\ feed' = [feed EXCEPT !.handles = Append(@, subscribe(feed.published))]
    /\ UNCHANGED <<engine, ledger, now, limiter, granted, fillLog, twin,
                   ma, conc, trace, storeOps, router>>

\* the holder of a handle receives
FeedRecv ==
    /\ \E i \in 1..Len(feed.handles) :
         /\ feed.handles[i].lag > 0 \/ feed.handles[i].q # <<>>
         /\ feed' = [feed EXCEPT !.handles[i] = handle_recv(@)]
    /\ UNCHANGED <<engine, ledger, now, limiter, granted, fillLog, twin,
                   ma, conc, trace, storeOps, router>>

FeedNext ==
    \/ FeedPublish
    \/ FeedSubscribe
    \/ FeedRecv

FeedSpec == FeedInit /\ [][FeedNext]_vars

----------------------------------------------------------------------------
(* The rate limiter on its own: any pattern of allow calls over time       *)

LimiterInit ==
    /\ EngineIdle
    /\ ledger = EmptyLedger
    /\ now = 0
    /\ limiter \in {[max_per_minute |-> m, timestamps |-> <<>>, window |-> w] :
                       m \in 0..MaxPermits, w \in 0..MaxWindow}
    /\ granted = <<>>
    /\ fillLog = <<>>
    /\ twin = [forked |-> FALSE, st |-> None, store |-> NoSnapshot, intents |-> <<>>]
    /\ UnitsIdle

\* the limiter after the answer r of allow
LimiterAnswered(r) ==
    /\ limiter' = [limiter EXCEPT !.timestamps = r.timestamps]
    /\ granted' = IF r.ok THEN Append(granted, now) ELSE granted

\* one call of OrderRateLimiter::allow at the present instant
LimiterAllow ==
    /\ LimiterAnswered(allow(limiter.timestamps, now, limiter.window,
                             limiter.max_per_minute))
    /\ UNCHANGED <<engine, ledger, now, fillLog, twin, units>>

\* a second passes
LimiterTick ==
    /\ now < MaxLimiterClock
    /\ now' = now + 1
    /\ UNCHANGED <<engine, ledger, limiter, granted, fillLog, twin, units>>

LimiterNext ==
    \/ LimiterAllow
    \/ LimiterTick

LimiterSpec == LimiterInit /\ [][LimiterNext]_vars

----------------------------------------------------------------------------
(* The indicator on its own: MovingAverage::new, then any sequence of seed *)
(* and update calls                                                        *)

\* the observations given to the indicator
ObsValues == 1..MaxObserved

IndicatorInit ==
    /\ EngineIdle
    /\ ledger = EmptyLedger
    /\ now = 0
    /\ limiter = [max_per_minute |-> 1, timestamps |-> <<>>, window |-> WindowSeconds]
    /\ granted = <<>>
    /\ fillLog = <<>>
    /\ twin = [forked |-> FALSE, st |-> None, store |-> NoSnapshot, intents |-> <<>>]
    /\ ma \in {[period |-> n, window |-> <<>>, pushed |-> <<>>, op |-> "new",
                 arg |-> <<>>, value |-> None] : n \in 1..MaxPeriod}
    /\ conc = ConcIdle
    /\ trace = <<>>
    /\ storeOps = <<>>
    /\ router = RouterIdle
    /\ feed = FeedIdle

\* one call of MovingAverage::seed; the observations it pushes are the
\* supplied values up to the period
IndicatorSeed ==
    /\ \E values \in SeqsUpTo(ObsValues, MaxSeed) :
         ma' = [ma EXCEPT !.window = seed(ma.period, values),
                          !.pushed = Take(values, ma.period),
                          !.op = "seed", !.arg = values, !.value = None]
    /\ UNCHANGED <<engine, ledger, now, limiter, granted, fillLog, twin,
                   conc, trace, storeOps, router, feed>>

\* the indicator after the answer r of update to the observation v
IndicatorUpdated(v, r) ==
    ma' = [ma EXCEPT !.window = r.window, !.pushed = Append(ma.pushed, v),
                     !.op = "update", !.arg = <<v>>, !.value = r.value]

\* one call of MovingAverage::update
IndicatorUpdate ==
    /\ Len(ma.pushed) < MaxPushed
    /\ \E v \in ObsValues : IndicatorUpdated(v, update(ma.window, ma.period, v))
    /\ UNCHANGED <<engine, ledger, now, limiter, granted, fillLog, twin,
                   conc, trace, storeOps, router, feed>>

IndicatorNext ==
    \/ IndicatorSeed
    \/ IndicatorUpdate

IndicatorSpec == IndicatorInit /\ [][IndicatorNext]_vars

----------------------------------------------------------------------------
(* The strategy with windows 2 and 3 fed one close after another through   *)
(* the engine, the ledger empty, the history request answered with no      *)
(* candle and every save succeeding                                        *)

\* short_window 2 and long_window 3, with the smallest rate limit and the
\* default one (default_rate, 30 a minute)
CrossoverParams ==
    {[asset |-> "BTC", short_window |-> 2, long_window |-> 3, trade_size |-> 1,
      slippage_bps |-> 5, max_position |-> 2, max_order_rate_per_min |-> r] :
        r \in {1, 30}}

\* the closes of the candles
CrossoverCloses == {8, 10, 12}

CrossoverInit ==
    /\ params \in CrossoverParams
    /\ strat = build(params, NoSnapshot).strategy
    /\ store = NoSnapshot
    /\ ledger = EmptyLedger
    /\ now = 0
    /\ upstreamQ = <<>>
    /\ upstreamClosed = FALSE
    /\ fwdPc = "running"
    /\ mktQ = <<>>
    /\ mktLag = 0
    /\ rawFillQ = <<>>
    /\ rawFillClosed = TRUE
    /\ fillTaskPc = "absent"
    /\ fillQ = <<>>
    /\ engineFills = "none"
    /\ enginePc = "select"
    /\ obs = NoObs
    /\ sent = [mkt |-> 0, fill |-> 0]
    /\ restarts = 0
    /\ AuxIdle

\* the engine after handle_market_event has returned r for the close; free
\* tells whether the rate limiter had a permit to give at that instant
CrossoverHandled(close, free, r) ==
    /\ AfterMarket(r)
    /\ trace' = Append(trace, [close |-> close, signal |-> r.st.last_signal,
                               intents |-> r.obs.intents, free |-> free])

\* run: one candle of the strategy's asset is received and handled
CrossoverClose ==
    /\ enginePc = "select"
    /\ Len(trace) < MaxCloses
    /\ \E close \in CrossoverCloses :
         CrossoverHandled(close,
             allow(strat.timestamps, now, WindowSeconds, RateLimit(params)).ok,
             handle_market_event(params, strat, store, ledger, now,
                 [tag |-> "Ok", event |-> [asset |-> params.asset, price |-> close]],
                 [ok |-> TRUE, closes |-> <<>>], <<TRUE, TRUE>>, 0))
    /\ UNCHANGED <<params, ledger, now, pipes, engineFills, sent, restarts,
                   limiter, granted, fillLog, twin, ma, conc, storeOps, router, feed>>

CrossoverNext ==
    \/ Tick
    \/ CrossoverClose

CrossoverSpec == CrossoverInit /\ [][CrossoverNext]_vars

----------------------------------------------------------------------------
(* Save and restore: once the strategy has persisted its state, a freshly  *)
(* built strategy loads the snapshot, and both are given the same events,  *)
(* fills, ledger and clock.  Every save and historical fetch succeeds      *)

\* the answers of the two strategies to one handler call
RoundTripAnswered(kind, orig, restored) ==
    /\ strat' = orig.st
    /\ store' = orig.store
    /\ obs' = [NoObs EXCEPT !.kind = kind, !.intents = orig.intents,
                            !.result = IF orig.ok THEN "ok" ELSE "handler_err"]
    /\ twin' = [twin EXCEPT !.st = restored.st, !.store = restored.store,
                            !.intents = restored.intents]
    /\ enginePc' = IF orig.ok /\ restored.ok THEN "select" ELSE "err"

\* the answer of the original strategy alone, before the save
RoundTripAlone(kind, orig) ==
    /\ strat' = orig.st
    /\ store' = orig.store
    /\ obs' = [NoObs EXCEPT !.kind = kind, !.intents = orig.intents,
                            !.result = IF orig.ok THEN "ok" ELSE "handler_err"]
    /\ twin' = twin
    /\ enginePc' = IF orig.ok THEN "select" ELSE "err"

\* the snapshot file holds what persist_state last wrote and the strategy has
\* not changed since: MaCrossoverBuilder::build with the same parameters
\* loads the file into a fresh strategy
RoundTripRestore ==
    /\ enginePc = "select"
    /\ ~twin.forked
    /\ store.tag = "Some"
    /\ store = build_snapshot(strat)
    /\ twin' = [forked |-> TRUE, st |-> build(params, store).strategy,
                store |-> store, intents |-> <<>>]
    /\ obs' = NoObs
    /\ UNCHANGED <<params, strat, store, ledger, now, pipes, fwdPc, engineFills,
                   enginePc, sent, restarts, limiter, granted, fillLog, units>>

\* the fetches that succeed
FetchesOk(p, st) == {f \in Fetches(p, st) : f.ok}

\* one market event given to on_event of both strategies
RoundTripEvent ==
    /\ enginePc = "select"
    /\ sent.mkt < MaxEvents
    /\ \E px \in Prices, fetch \in FetchesOk(params, strat) :
         IF twin.forked
         THEN RoundTripAnswered("event",
                  on_event(params, strat, store, [asset |-> params.asset, price |-> px],
                           ledger, now, fetch, <<TRUE, TRUE>>),
                  on_event(params, twin.st, twin.store,
                           [asset |-> params.asset, price |-> px],
                           ledger, now, fetch, <<TRUE, TRUE>>))
         ELSE RoundTripAlone("event",
                  on_event(params, strat, store, [asset |-> params.asset, price |-> px],
                           ledger, now, fetch, <<TRUE, TRUE>>))
    /\ sent' = [sent EXCEPT !.mkt = @ + 1]
    /\ UNCHANGED <<params, ledger, now, pipes, fwdPc, engineFills, restarts,
                   limiter, granted, fillLog, units>>

\* the ledger after one fill, read by on_fill of both strategies
RoundTripFilled(after) ==
    /\ ledger' = after
    /\ IF twin.forked
       THEN RoundTripAnswered("fill", on_fill(params, strat, store, after, TRUE),
                              on_fill(params, twin.st, twin.store, after, TRUE))
       ELSE RoundTripAlone("fill", on_fill(params, strat, store, after, TRUE))

\* one fill applied to the ledger and given to on_fill of both strategies
RoundTripFill ==
    /\ enginePc = "select"
    /\ sent.fill < MaxFills
    /\ \E fill \in FillEvents : RoundTripFilled(apply_fill(ledger, fill))
    /\ sent' = [sent EXCEPT !.fill = @ + 1]
    /\ UNCHANGED <<params, now, pipes, fwdPc, engineFills, restarts,
                   limiter, granted, fillLog, units>>

RoundTripNext ==
    \/ Tick
    \/ RoundTripRestore
    \/ RoundTripEvent
    \/ RoundTripFill

RoundTripSpec == HandlerInit /\ [][RoundTripNext]_vars

----------------------------------------------------------------------------
(* The historical bootstrap over the lifetimes of the strategy: the process *)
(* handles market events, and may be started again over the snapshot file   *)
(* the previous run left                                                    *)

\* one line of the log: a handled event or a start of the process, with the
\* strategy and the snapshot file as they were afterwards; failed tells that
\* candles_snapshot was called and returned an error
BootEntry(kind, restored, failed, st, file, o, event) ==
    [kind |-> kind, restored |-> restored, fetched |-> o.fetched, failed |-> failed,
     st |-> st, file |-> file, result |-> o.result, intents |-> o.intents,
     asset |-> event.asset, price |-> event.price]

\* the engine after handle_market_event has returned r for the event
BootstrapHandled(event, fetch, r) ==
    /\ AfterMarket(r)
    /\ trace' = Append(trace, BootEntry("event", FALSE, r.obs.fetched /\ ~fetch.ok,
                                        r.st, r.store, r.obs, event))

\* run: one candle is received and handled; candles_snapshot, if it is
\* called, fails or returns up to two closes, and each save fails or not
BootstrapEvent ==
    /\ enginePc = "select"
    /\ Len(trace) < MaxBootLog
    /\ \E a \in Assets, px \in Prices, fetch \in FetchResults, io_ok \in IoOutcomes :
         BootstrapHandled([asset |-> a, price |-> px], fetch,
             handle_market_event(params, strat, store, ledger, now,
                 [tag |-> "Ok", event |-> [asset |-> a, price |-> px]],
                 fetch, io_ok, 0))
    /\ UNCHANGED <<params, ledger, now, pipes, engineFills, sent, restarts,
                   limiter, granted, fillLog, twin, ma, conc, storeOps, router, feed>>

\* App::run once more: the strategy is built anew over the snapshot file as
\* it is, and the engine enters its loop
BootstrapRestart ==
    /\ restarts < MaxRestarts
    /\ Len(trace) < MaxBootLog
    /\ strat' = build(params, store).strategy
    /\ enginePc' = "select"
    /\ fwdPc' = "running"
    /\ obs' = NoObs
    /\ restarts' = restarts + 1
    /\ trace' = Append(trace, BootEntry("start", store.tag = "Some", FALSE,
                                        build(params, store).strategy, store, NoObs,
                                        [asset |-> params.asset, price |-> 0]))
    /\ UNCHANGED <<params, store, ledger, now, pipes, engineFills, sent,
                   limiter, granted, fillLog, twin, ma, conc, storeOps, router, feed>>

BootstrapNext ==
    \/ BootstrapEvent
    \/ BootstrapRestart

BootstrapSpec == CrossoverInit /\ [][BootstrapNext]_vars

----------------------------------------------------------------------------
(* The order-rate budget: events and fills are handled under the default   *)
(* rate limit, and every intent on_event returns is kept in a log          *)

\* the parameters of ParamChoices with default_rate, 30 orders a minute
BudgetParams ==
    {[asset |-> "BTC", short_window |-> 1, long_window |-> 2, trade_size |-> 1,
      slippage_bps |-> 5, max_position |-> 2, max_order_rate_per_min |-> 30]}

BudgetInit ==
    /\ params \in BudgetParams
    /\ strat = build(params, NoSnapshot).strategy
    /\ store = NoSnapshot
    /\ ledger = EmptyLedger
    /\ now = 0
    /\ upstreamQ = <<>>
    /\ upstreamClosed = FALSE
    /\ fwdPc = "running"
    /\ mktQ = <<>>
    /\ mktLag = 0
    /\ rawFillQ = <<>>
    /\ rawFillClosed = FALSE
    /\ fillTaskPc = "running"
    /\ fillQ = <<>>
    /\ engineFills = "some"
    /\ enginePc = "select"
    /\ obs = NoObs
    /\ sent = [mkt |-> 0, fill |-> 0]
    /\ restarts = 0
    /\ AuxIdle

\* the engine after handle_market_event has returned r: the intents of the
\* response join the log
BudgetHandled(r) ==
    /\ AfterMarket(r)
    /\ trace' = trace \o r.obs.intents

\* run: the market branch with a candle; the fetch and the saves succeed and
\* so does every submission
BudgetEvent ==
    /\ enginePc = "select"
    /\ sent.mkt < MaxEvents
    /\ \E a \in Assets, px \in Prices, fetch \in FetchesOk(params, strat) :
         BudgetHandled(handle_market_event(params, strat, store, ledger, now,
                           [tag |-> "Ok", event |-> [asset |-> a, price |-> px]],
                           fetch, <<TRUE, TRUE>>, 0))
    /\ sent' = [sent EXCEPT !.mkt = @ + 1]
    /\ UNCHANGED <<params, ledger, now, pipes, engineFills, restarts,
                   limiter, granted, fillLog, twin, ma, conc, storeOps, router, feed>>

\* run: the fill branch with a fill; the save succeeds
BudgetFill ==
    /\ enginePc = "select"
    /\ sent.fill < MaxFills
    /\ \E fill \in FillEvents :
         AfterFill(handle_fill(params, strat, store, ledger, Some(fill), TRUE, 0))
    /\ sent' = [sent EXCEPT !.fill = @ + 1]
    /\ UNCHANGED <<params, now, pipes, restarts, aux>>

BudgetNext ==
    \/ Tick
    \/ BudgetEvent
    \/ BudgetFill

BudgetSpec == BudgetInit /\ [][BudgetNext]_vars

----------------------------------------------------------------------------
(* Claims about the engine loop                                            *)

\* C1: whenever handle_fill has dispatched a fill, the net position on_fill
\* read for the fill's instrument is the net position before the fill plus
\* the fill's signed size: the fill is applied to the ledger before on_fill
\* observes it.
C1_FillAppliedBeforeOnFill ==
    obs.kind = "fill" =>
        /\ obs.seen = obs.before + SignedSize(obs.fill.value)
        /\ obs.seen = net_position(ledger, obs.fill.value.asset)

\* a fill has been dispatched and on_fill saw a position it changed
C1_Witness ==
    /\ obs.kind = "fill"
    /\ obs.result = "ok"
    /\ obs.seen # obs.before

C5_SnapshotEqualsState ==
    (obs.kind \in {"event", "fill"} /\ obs.result # "handler_err" /\ strat.bootstrapped)
        => store = build_snapshot(strat)

\* C8: once the source of candles has ended (its channel closed and drained),
\* run eventually terminates.
C8_MarketCloseEndsRun ==
    (upstreamClosed /\ upstreamQ = <<>>) ~> ~Running

\* C9 as stated: run has left its loop only on closure of the market stream
\* or on a failed submission.
C9_ExitOnlyOnCloseOrSubmitError ==
    ~Running => (obs.kind = "closed" \/ obs.result = "submit_err")

\* C9 as amended: run has left its loop exactly when the last handler call saw
\* the market stream closed, or a strategy handler returned an error, or a
\* submission returned an error; a lag signal, the closure of the fill channel
\* and a successful handler call leave it running.
C9_ExitOnlyOnCloseOrError ==
    /\ ~Running => (obs.kind = "closed" \/ obs.result \in {"handler_err", "submit_err"})
    /\ (obs.kind \in {"none", "lag", "fill_closed"} \/
        (obs.kind \in {"event", "fill"} /\ obs.result = "ok")) => Running

\* run has ended because a strategy handler returned an error
C9_Witness ==
    /\ enginePc = "err"
    /\ obs.result = "handler_err"

\* C10: the closure of the fill channel leaves the engine running with the
\* fill source dropped; from then on the fill source stays dropped, the ledger
\* is not modified and no fill is dispatched.
C10_FillClosureDegrades ==
    /\ [](obs.kind = "fill_closed" => (Running /\ engineFills = "none"))
    /\ [][engineFills = "none" =>
            (engineFills' = "none" /\ ledger' = ledger /\ obs'.kind # "fill")]_vars

\* the fill channel closed during the run and a later market event was
\* dispatched to on_event
C10_Witness ==
    /\ fillTaskPc = "exited"
    /\ engineFills = "none"
    /\ obs.kind = "event"
    /\ obs.result = "ok"
    /\ Running

----------------------------------------------------------------------------
(* Claims about the ledger, the strategy's signal and the rate limiter     *)

RECURSIVE SignedSum(_, _)
\* the signed sum of the sizes of the fills of a log on one instrument
SignedSum(log, asset) ==
    IF log = <<>> THEN 0
    ELSE (IF Head(log).asset = asset THEN SignedSize(Head(log)) ELSE 0)
         + SignedSum(Tail(log), asset)

\* C3: after any sequence of apply_fill calls the ledger's net size of every
\* instrument is the signed sum of the sizes of the fills applied to that
\* instrument, and an instrument has an entry exactly when a fill was applied
\* to it.
C3_NetIsSignedSum ==
    \A a \in Assets :
        /\ net_position(ledger, a) = SignedSum(fillLog, a)
        /\ ledger[a].tag = "Some" <=> (\E i \in 1..Len(fillLog) : fillLog[i].asset = a)
        /\ ledger[a].tag = "Some" => ledger[a].size = SignedSum(fillLog, a)

\* fills on both instruments interleaved, a buy and a sell among those on BTC
C3_Witness ==
    /\ Len(fillLog) = 3
    /\ fillLog[1].asset = "BTC" /\ fillLog[1].is_buy
    /\ fillLog[2].asset = "ETH"
    /\ fillLog[3].asset = "BTC" /\ ~fillLog[3].is_buy
    /\ net_position(ledger, "BTC") = 0 - 1

\* the signal that stands for a net position
SignalOf(net) == IF net > 0 THEN "Long" ELSE IF net < 0 THEN "Short" ELSE "Flat"

\* C4: after every on_fill call the strategy's signal is the sign of the
\* ledger's net position of the strategy's instrument: Long above zero, Short
\* below, Flat at zero.
C4_SignalFollowsLedger ==
    obs.kind = "fill" => strat.last_signal = SignalOf(net_position(ledger, params.asset))

\* the strategy emitted an entry and persisted a signal that is not Flat, and
\* a later fill brought the held position back to zero: the signal is Flat
C4_Witness ==
    /\ obs.kind = "fill"
    /\ ledger[params.asset].tag = "Some"
    /\ ledger[params.asset].size = 0
    /\ obs.before # 0
    /\ obs.fill.value.asset = params.asset
    /\ strat.last_signal = "Flat"
    /\ strat.bootstrapped

\* the number of grants at instants within the closed interval [from, from + window]
GrantsWithin(from, window) ==
    Cardinality({i \in 1..Len(granted) :
                    granted[i] >= from /\ granted[i] <= from + window})

\* C7: in every window of the configured duration, its two ends included, the
\* limiter has returned true at most max_per_minute times.
C7_AtMostMaxPerWindow ==
    \A from \in 0..MaxLimiterClock :
        GrantsWithin(from, limiter.window) <= limiter.max_per_minute

\* a permit exactly as old as the window made the limiter refuse, and the
\* limiter granted again once it was older
C7_Witness ==
    /\ limiter.window = 2
    /\ limiter.max_per_minute = 1
    /\ granted = <<0, 3>>
    /\ limiter.timestamps = <<3>>

\* C6: a strategy restored from the saved snapshot of another answers every
\* later handler call with the same intents as the strategy it was saved
\* from, given the same events, fills, ledger and clock.
C6_RestoredDecidesAlike ==
    twin.forked => twin.intents = obs.intents

----------------------------------------------------------------------------
(* Claims about the select loop: starvation, order, lag and closure        *)

\* C11: with the engine in its select, a market event at the head of the
\* market receiver is eventually dispatched to on_event (unless the ring
\* overwrites it or an error ends the run first), and a fill at the head of
\* the fill channel is eventually applied and dispatched to on_fill (unless an
\* error ends the run first), whatever the other source holds.
C11_NoStarvation ==
    /\ \A e \in PipelineEvents :
         (enginePc = "select" /\ mktLag = 0 /\ mktQ # <<>> /\ Head(mktQ) = e)
            ~> (obs.event = Some(e) \/ mktLag > 0 \/ ~Running)
    /\ \A f \in PipelineFills :
         (enginePc = "select" /\ engineFills = "some" /\ fillQ # <<>> /\ Head(fillQ) = f)
            ~> ((obs.fill = Some(f) /\ net_position(ledger, f.asset) = obs.seen) \/ ~Running)

\* a market event has been dispatched while the fill source was open and had
\* never held a fill
C11_Witness ==
    /\ obs.kind = "event"
    /\ Running
    /\ engineFills = "some"
    /\ fillTaskPc = "running"
    /\ fillQ = <<>>
    /\ ledger = EmptyLedger

\* C12: a step of the engine that takes from one receiver dispatches exactly
\* the oldest event that receiver holds, removes exactly that event and leaves
\* the other receiver as it is.
C12_ArrivalOrderOnceEach ==
    /\ [][(mktLag = 0 /\ mktQ' # mktQ) =>
            (/\ mktQ' = Tail(mktQ)
             /\ obs'.kind = "event" /\ obs'.event = Some(Head(mktQ))
             /\ fillQ' = fillQ
             /\ ledger' = ledger)]_vars
    /\ [][fillQ' # fillQ =>
            (/\ fillQ' = Tail(fillQ)
             /\ obs'.kind = "fill" /\ obs'.fill = Some(Head(fillQ))
             /\ ledger' = apply_fill(ledger, Head(fillQ))
             /\ mktQ' = mktQ /\ mktLag' = mktLag)]_vars
    /\ [][(obs' # obs /\ obs'.kind = "event") => (mktQ # <<>> /\ mktQ' = Tail(mktQ))]_vars
    /\ [][(obs' # obs /\ obs'.kind = "fill") => (fillQ # <<>> /\ fillQ' = Tail(fillQ))]_vars

\* both receivers held two events; a fill was taken first, then a market
\* event, and the second of each is still queued
C12_Witness ==
    /\ obs.kind = "event"
    /\ Len(mktQ) = 1
    /\ Len(fillQ) = 1
    /\ ledger # EmptyLedger
    /\ Running

\* C13: a lag signal is answered without a strategy handler and without a
\* submission; the step leaves the strategy, its snapshot, the ledger and
\* both receivers' queues as they were and the engine in its select.
C13_LagIsNonFatal ==
    /\ [](obs.kind = "lag" =>
            (Running /\ obs.intents = <<>> /\ obs.submitted = <<>> /\ obs.event = None))
    /\ [][(enginePc = "select" /\ mktLag > 0 /\ mktLag' = 0) =>
            (/\ obs'.kind = "lag"
             /\ strat' = strat /\ store' = store /\ ledger' = ledger
             /\ mktQ' = mktQ /\ fillQ' = fillQ
             /\ enginePc' = "select")]_vars

\* the lag signal has been handled and the event that overwrote the lost one
\* is still there to be dispatched
C13_Witness ==
    /\ obs.kind = "lag"
    /\ mktLag = 0
    /\ mktQ # <<>>
    /\ enginePc = "select"

\* C14: the closure of the market subscription ends run with Ok: no handler
\* runs and nothing is submitted for it, the strategy, its snapshot and the
\* ledger stay as they were, and run returns Ok for no other reason.
C14_ClosureExitsCleanly ==
    /\ [](obs.kind = "closed" =>
            (enginePc = "ok" /\ obs.intents = <<>> /\ obs.submitted = <<>>
             /\ obs.event = None /\ obs.fill = None))
    /\ [](enginePc = "ok" => obs.kind = "closed")
    /\ [][obs'.kind = "closed" =>
            (strat' = strat /\ store' = store /\ ledger' = ledger
             /\ engineFills' = engineFills)]_vars

\* run has returned Ok on closure with the fill source still present, after
\* fills and events were handled
C14_Witness ==
    /\ enginePc = "ok"
    /\ obs.kind = "closed"
    /\ engineFills = "some"
    /\ sent.fill > 0
    /\ strat.bootstrapped

----------------------------------------------------------------------------
(* Claims about the moving-window indicator                                *)

\* the last n elements of s (all of s when it is shorter)
LastN(s, n) == SubSeq(s, IF Len(s) > n THEN Len(s) - n + 1 ELSE 1, Len(s))

\* C15: update returns a value exactly when at least period observations have
\* been pushed since construction or the last seed (those the seed pushed
\* included), and the value is the sum of the last period observations
\* pushed divided by period.
C15_MeanOfLastN ==
    ma.op = "update" =>
        /\ ma.value.tag = "Some" <=> Len(ma.pushed) >= ma.period
        /\ ma.value.tag = "Some" =>
              /\ ma.value.value.num = SumSeq(LastN(ma.pushed, ma.period))
              /\ ma.value.value.den = ma.period
              /\ Len(LastN(ma.pushed, ma.period)) = ma.period

\* a seed that left the window short, then updates until the window had been
\* full and had evicted: the value is the mean of the last three observations
C15_Witness ==
    /\ ma.op = "update"
    /\ ma.period = 3
    /\ ma.pushed = <<1, 2, 4, 3>>
    /\ ma.value = Some([num |-> 9, den |-> 3])

\* C16: seed leaves the window holding the supplied values up to the period
\* and nothing else; update appends the observation and drops the oldest
\* value when the window would exceed the period; the window always holds the
\* last period observations pushed.  seed(<<1, 2, 3>>) with period 3 then
\* update(4) leaves <<2, 3, 4>> and returns 9/3.
C16_SeedThenUpdate ==
    /\ [](ma.op = "seed" => ma.window = Take(ma.arg, ma.period))
    /\ [](ma.window = LastN(ma.pushed, ma.period))
    /\ [][ma'.op = "update" =>
            ma'.window = LastN(Append(ma.window, ma'.arg[1]), ma.period)]_vars
    /\ [][(ma.op = "seed" /\ ma.period = 3 /\ ma.arg = <<1, 2, 3>>
           /\ ma'.op = "update" /\ ma'.arg = <<4>>) =>
            (ma'.window = <<2, 3, 4>> /\ ma'.value = Some([num |-> 9, den |-> 3]))]_vars

\* the scenario of the claim: after updates, seed(<<1, 2, 3>>) and update(4)
C16_Witness ==
    /\ ma.op = "update"
    /\ ma.period = 3
    /\ ma.arg = <<4>>
    /\ ma.pushed = <<1, 2, 3, 4>>
    /\ ma.window = <<2, 3, 4>>
    /\ ma.value = Some([num |-> 9, den |-> 3])

----------------------------------------------------------------------------
(* Claims about the crossover decisions                                    *)

\* the means of the last two and of the last three closes at the i-th close,
\* compared: "gt" when the short mean is above the long mean.  evaluate
\* returns before it updates the long indicator while the short one is not
\* full, so the long indicator holds three closes from the fourth close on
CrossCmp(i) ==
    IF i < params.short_window + params.long_window - 1 THEN "none"
    ELSE LET s == 3 * (trace[i].close + trace[i-1].close)
             g == 2 * (trace[i].close + trace[i-1].close + trace[i-2].close)
         IN  IF s > g THEN "gt" ELSE IF s < g THEN "lt" ELSE "eq"

RECURSIVE PrevCmp(_)
\* the last comparison before the i-th close that was not an equality
PrevCmp(i) ==
    IF i <= 1 THEN "none"
    ELSE IF CrossCmp(i-1) \in {"gt", "lt"} THEN CrossCmp(i-1)
    ELSE PrevCmp(i-1)

\* the signal state before the i-th close
SignalBefore(i) == IF i = 1 THEN "Flat" ELSE trace[i-1].signal

\* the limiter had a permit to give at each of the first i closes
FreeUpTo(i) == \A j \in 1..i : trace[j].free

\* exactly one intent, a Sell that is not reduce-only
OneSell(intents) ==
    /\ Len(intents) = 1
    /\ intents[1].side = "Sell"
    /\ intents[1].reduce_only = FALSE

ScenarioCloses == <<10, 10, 10, 12, 8, 12>>

\* the closes received so far are those of the scenario
ScenarioFed ==
    /\ Len(trace) = Len(ScenarioCloses)
    /\ \A i \in 1..Len(trace) : trace[i].close = ScenarioCloses[i]

----------------------------------------------------------------------------
(* Claims about the entry price and about concurrent ledger access         *)

\* the fill increases a position held in its own direction
SameDirection(pos, fill) ==
    (fill.is_buy /\ pos.size > 0) \/ (~fill.is_buy /\ pos.size < 0)

\* the fill goes against the position held
Offsetting(pos, fill) ==
    (fill.is_buy /\ pos.size < 0) \/ (~fill.is_buy /\ pos.size > 0)

\* the step applies the fill f to the ledger
Applies(f) == fillLog' = Append(fillLog, f)

\* C18: the first fill of an instrument creates its entry with the fill
\* price as entry price; a fill in the direction of the position held (a buy
\* while long, a sell while short) adds to the size and sets the entry price
\* to the fill price; a fill against the position subtracts from the size
\* and leaves the entry price as it was.
C18_EntryPriceRule ==
    [][\A f \in FillEvents :
        Applies(f) =>
            /\ ledger[f.asset].tag = "None" =>
                  ledger'[f.asset] = Position(f.asset, SignedSize(f), f.price)
            /\ (ledger[f.asset].tag = "Some" /\ SameDirection(ledger[f.asset], f)) =>
                  ledger'[f.asset] =
                      Position(f.asset, ledger[f.asset].size + SignedSize(f), f.price)
            /\ (ledger[f.asset].tag = "Some" /\ Offsetting(ledger[f.asset], f)) =>
                  ledger'[f.asset] =
                      Position(f.asset, ledger[f.asset].size + SignedSize(f),
                               ledger[f.asset].entry_price)]_vars
RECURSIVE ReplayFrom(_, _)
\* the ledger after the fills of log have been applied to l one after another
ReplayFrom(l, log) ==
    IF log = <<>> THEN l ELSE ReplayFrom(apply_fill(l, Head(log)), Tail(log))

\* C19: whatever the interleaving of apply_fill and snapshot calls, two calls
\* never work on the same instrument at once; the entry of an instrument no
\* call is working on is what applying the completed calls one after another
\* gives, its size the signed sum of their fills; and every Position a
\* snapshot has collected is a value the entry had between two calls.
C19_AtomicPerInstrument ==
    /\ \A w1, w2 \in WriterIds :
         (w1 # w2 /\ conc.pc[w1] # "idle" /\ conc.pc[w2] # "idle") =>
             conc.fill[w1].value.asset # conc.fill[w2].value.asset
    /\ \A a \in Assets :
         conc.lock[a] <= 0 =>
             /\ ledger[a] = ReplayFrom(EmptyLedger, fillLog)[a]
             /\ net_position(ledger, a) = SignedSum(fillLog, a)
    /\ \A i \in 1..Len(conc.reader.out) :
         conc.reader.out[i] \in conc.committed[conc.reader.out[i].asset]

\* a snapshot is cloning the entry of one instrument while a call is between
\* its two writes to the entry of the other and a third call has completed
C19_Witness ==
    /\ conc.reader.pc = "cloning"
    /\ \E w \in WriterIds : conc.pc[w] = "sized"
    /\ Len(fillLog) >= 2
    /\ Len(conc.reader.out) = 1

----------------------------------------------------------------------------
(* Claims about the builder                                                *)

\* a window of the params Value that is no non-negative integer
Unparsable(x) == ~(x.tag = "int" /\ x.v >= 0)

\* the configuration is malformed: a window cannot be parsed, or the short
\* window is not below the long one
Malformed(raw) ==
    \/ Unparsable(raw.short_window)
    \/ Unparsable(raw.long_window)
    \/ raw.short_window.v >= raw.long_window.v

\* C20: build on a params Value whose windows cannot be parsed or whose
\* short window is not below the long window returns a configuration error
\* and no strategy, without any access to the snapshot store and without any
\* change to the snapshot file, the ledger or the parameters; and whenever
\* build returns a configuration error there is no strategy and the store
\* was not accessed.
C20_MalformedBuildFails ==
    /\ [][(enginePc = "build" /\ enginePc' # "build" /\ Malformed(params)) =>
            /\ obs'.result = "Config"
            /\ strat' = None
            /\ storeOps' = <<>>
            /\ store' = store
            /\ ledger' = ledger
            /\ params' = params]_vars
    /\ [](obs.result = "Config" => (strat = None /\ storeOps = <<>> /\ enginePc = "err"))

\* equal windows were rejected with a snapshot of an earlier run on disk
C20_Witness ==
    /\ obs.kind = "build"
    /\ obs.result = "Config"
    /\ params.short_window = [tag |-> "int", v |-> 2]
    /\ params.long_window = [tag |-> "int", v |-> 2]
    /\ store.tag = "Some"
    /\ strat = None
    /\ storeOps = <<>>

----------------------------------------------------------------------------
(* Claims about the order router                                           *)

\* C21: every request submit sends carries a token; the token of an intent
\* that has one is sent as it is; and when a submission that returned an
\* error is followed by a submission of the same intent, the exchange does
\* not execute both.
C21_TokenMakesRetryIdempotent ==
    /\ \A i \in 1..Len(router.calls) :
         router.calls[i].request.tag = "Some" =>
            /\ router.calls[i].request.value.cloid.tag = "Some"
            /\ router.calls[i].intent.cloid.tag = "Some" =>
                  router.calls[i].request.value.cloid = router.calls[i].intent.cloid
    /\ \A i, j \in 1..Len(router.calls) :
         (i < j /\ router.calls[i].intent = router.calls[j].intent
          /\ router.calls[i].result.tag # "Ok") =>
            ~(router.calls[i].executed /\ router.calls[j].executed)

----------------------------------------------------------------------------
(* Claims about the feed coordinator                                       *)

----------------------------------------------------------------------------
(* Claims about the handling of one market event by the strategy           *)

\* the close of the event the step hands to on_event
Handles(close) == trace' = Append(trace, trace'[Len(trace')]) /\ trace'[Len(trace')].close = close

\* C23: every event for the strategy's instrument appends its price to the
\* window of the short indicator and to the window of the long indicator,
\* each window keeping its last period values, whether or not the windows
\* are full.
C23_PriceFedToBothIndicators ==
    [][\A close \in CrossoverCloses :
        Handles(close) =>
            /\ strat'.short = LastN(Append(strat.short, close), params.short_window)
            /\ strat'.long = LastN(Append(strat.long, close), params.long_window)]_vars

\* C24: whenever on_event has answered with an intent, the signal state is
\* the direction of the intent and the snapshot file holds the snapshot of
\* the strategy as it is then, that direction included; so whenever the
\* engine has handed an intent to the router, the transition it belongs to
\* is in the snapshot store.
C24_IntentAfterSnapshot ==
    (obs.kind = "event" /\ (obs.intents # <<>> \/ obs.submitted # <<>>)) =>
        /\ Len(obs.intents) = 1
        /\ strat.last_signal = obs.intents[1].client_tag
        /\ store.tag = "Some"
        /\ store.last_signal = obs.intents[1].client_tag
        /\ store = build_snapshot(strat)

\* a Sell has been submitted and the snapshot on disk says Short
C24_Witness ==
    /\ obs.kind = "event"
    /\ Len(obs.submitted) = 1
    /\ obs.submitted[1].side = "Sell"
    /\ store.tag = "Some"
    /\ store.last_signal = "Short"
    /\ sent.mkt = 2

\* C25: an intent emitted by on_event is reduce-only exactly when it is a
\* Buy and the ledger's net position of the instrument is negative, or a Sell
\* and the net position is positive; with a net position of 0 it is not.
C25_ReduceOnlyIffOpposite ==
    (obs.kind = "event" /\ obs.intents # <<>>) =>
        \A i \in 1..Len(obs.intents) :
            /\ obs.intents[i].reduce_only <=>
                  \/ obs.intents[i].side = "Buy" /\ net_position(ledger, params.asset) < 0
                  \/ obs.intents[i].side = "Sell" /\ net_position(ledger, params.asset) > 0
            /\ net_position(ledger, params.asset) = 0 => ~obs.intents[i].reduce_only

\* a Buy emitted while the ledger is short
C25_Witness ==
    /\ obs.kind = "event"
    /\ Len(obs.intents) = 1
    /\ obs.intents[1].side = "Buy"
    /\ obs.intents[1].reduce_only
    /\ net_position(ledger, params.asset) < 0

\* C26: an intent emitted by on_event that is not reduce-only is never a Buy
\* while the net position is at or above max_position, nor a Sell while it is
\* at or below -max_position; a reduce-only intent is the only kind emitted
\* with the net position at or beyond the cap.
C26_CapOnNonReduceOnly ==
    (obs.kind = "event" /\ obs.intents # <<>>) =>
        \A i \in 1..Len(obs.intents) :
            /\ (~obs.intents[i].reduce_only /\ obs.intents[i].side = "Buy")
                   => net_position(ledger, params.asset) < params.max_position
            /\ (~obs.intents[i].reduce_only /\ obs.intents[i].side = "Sell")
                   => net_position(ledger, params.asset) > 0 - params.max_position
            /\ (\/ net_position(ledger, params.asset) >= params.max_position
                \/ net_position(ledger, params.asset) <= 0 - params.max_position)
                   => obs.intents[i].reduce_only

\* a reduce-only Sell emitted with the net position at the cap
C26_Witness ==
    /\ obs.kind = "event"
    /\ Len(obs.intents) = 1
    /\ obs.intents[1].side = "Sell"
    /\ obs.intents[1].reduce_only
    /\ net_position(ledger, params.asset) >= params.max_position

\* the target evaluate computes from two full windows
TargetOf(short, long) ==
    TargetSignal(simple_moving_average(short).value, simple_moving_average(long).value)

\* C27: when the target computed from the two means equals the last signal
\* or is Flat, on_event emits no intent, leaves the rate limiter as it was
\* and leaves the last signal unchanged; on_event never changes the last
\* signal to Flat.
C27_NoActionOnSameOrFlat ==
    [][\A close \in CrossoverCloses : Handles(close) =>
          /\ (/\ is_ready(strat'.short, params.short_window)
              /\ is_ready(strat'.long, params.long_window)
              /\ TargetOf(strat'.short, strat'.long) \in {strat.last_signal, "Flat"})
                 => /\ trace'[Len(trace')].intents = <<>>
                    /\ strat'.timestamps = strat.timestamps
                    /\ strat'.last_signal = strat.last_signal
          /\ strat'.last_signal # strat.last_signal => strat'.last_signal # "Flat"]_vars

\* after a Long intent the two means become equal while the rate limiter has
\* a permit: nothing is emitted and the signal stays Long
C27_Witness ==
    /\ Len(trace) = 6
    /\ trace[4].signal = "Long"
    /\ trace[4].intents # <<>>
    /\ trace[5].close = trace[4].close
    /\ trace[6].close = trace[4].close
    /\ trace[6].free
    /\ trace[6].intents = <<>>
    /\ trace[6].signal = "Long"
    /\ strat.last_signal = "Long"
    /\ TargetOf(strat.short, strat.long) = "Flat"

\* the position in the log of the start of the lifetime that entry i
\* belongs to; 0 for the first lifetime, which starts without a snapshot
RECURSIVE LifetimeOf(_)
LifetimeOf(i) ==
    IF i = 0 THEN 0
    ELSE IF trace[i].kind = "start" THEN i
    ELSE LifetimeOf(i - 1)

\* entry i is an event in which the bootstrap was carried out
BootstrapDone(i) ==
    trace[i].kind = "event" /\ trace[i].fetched /\ trace[i].st.bootstrapped

\* C28: within one lifetime of the strategy, once the historical bootstrap has
\* been carried out, or once the strategy has been restored from a snapshot,
\* no later event makes the historical fetch or feeds the indicators with
\* anything but its own price; the bootstrap is carried out at most once.
C28_BootstrapAtMostOnce ==
    \A i, j \in 1..Len(trace) :
        (/\ i < j
         /\ LifetimeOf(i) = LifetimeOf(j)
         /\ trace[j].kind = "event"
         /\ BootstrapDone(i) \/ (trace[i].kind = "start" /\ trace[i].restored))
        => /\ ~trace[j].fetched
           /\ ~BootstrapDone(j)
           /\ trace[j].st.short \in
                  {trace[j - 1].st.short,
                   LastN(Append(trace[j - 1].st.short, trace[j].price),
                         params.short_window)}
           /\ trace[j].st.long \in
                  {trace[j - 1].st.long,
                   LastN(Append(trace[j - 1].st.long, trace[j].price),
                         params.long_window)}

\* a bootstrap that fetched nothing, a second event of the same lifetime, a
\* start over the snapshot, and an event after it: the indicators are not
\* full, and the last three make no fetch
C28_Witness ==
    /\ Len(trace) = 4
    /\ BootstrapDone(1)
    /\ trace[2].kind = "event" /\ trace[2].asset = params.asset /\ ~trace[2].fetched
    /\ trace[3].kind = "start" /\ trace[3].restored
    /\ trace[4].kind = "event" /\ trace[4].asset = params.asset /\ ~trace[4].fetched
    /\ Len(trace[4].st.long) < params.long_window

\* the last step dispatched a market event whose on_event returned an error
\* although the historical fetch, if made, succeeded: a save failed
EventSaveFailed ==
    /\ sent'.mkt = sent.mkt + 1
    /\ obs'.kind = "event"
    /\ obs'.result = "handler_err"
    /\ ~(obs'.fetched /\ ~strat'.bootstrapped)

\* the last step dispatched a fill whose on_fill returned an error
FillSaveFailed ==
    /\ sent'.fill = sent.fill + 1
    /\ obs'.kind = "fill"
    /\ obs'.result = "handler_err"

\* the save after evaluate failed: the strategy is as the same call leaves it
\* when its saves succeed, and the file holds what the bootstrap, if it was
\* carried out, saved
KeptAfterEvaluate(fetch) ==
    /\ strat' = on_event(params, strat, store, obs'.event.value, ledger, now, fetch,
                         <<TRUE, TRUE>>).st
    /\ obs'.fetched =>
           store' = build_snapshot(ensure_bootstrap(params, strat, store, fetch, TRUE).st)

\* the save of the bootstrap failed: the strategy is as ensure_bootstrap
\* leaves it when its save succeeds, and the file is as it was
KeptAfterBootstrap(fetch) ==
    /\ obs'.fetched
    /\ strat' = ensure_bootstrap(params, strat, store, fetch, TRUE).st
    /\ store' = store

\* C29: when a snapshot save fails in on_event or on_fill, the handler's
\* error reaches the engine, which ends with it and submits nothing, and the
\* strategy and the ledger hold the changes the call made before the save:
\* the windows, the last signal, the bootstrapped flag and the limiter are as
\* after a call whose saves succeed, and the fill is in the ledger.
C29_SaveFailureKeepsMemory ==
    [][/\ EventSaveFailed =>
            /\ enginePc' = "err"
            /\ obs'.intents = <<>>
            /\ obs'.submitted = <<>>
            /\ \E fetch \in Fetches(params, strat) :
                   fetch.ok /\ (KeptAfterEvaluate(fetch) \/ KeptAfterBootstrap(fetch))
       /\ FillSaveFailed =>
            /\ enginePc' = "err"
            /\ obs'.submitted = <<>>
            /\ ledger' = apply_fill(ledger, obs'.fill.value)
            /\ strat' = [strat EXCEPT !.last_signal =
                             SignalOf(net_position(ledger', params.asset))]]_vars

\* the save after evaluate failed on the first event: the engine has ended
\* with the error, the signal is Long in memory and Flat in the file the
\* bootstrap saved
C29_Witness ==
    /\ obs.kind = "event"
    /\ obs.result = "handler_err"
    /\ enginePc = "err"
    /\ sent.fill = 0
    /\ strat.bootstrapped
    /\ strat.last_signal = "Long"
    /\ strat.timestamps # <<>>
    /\ store.tag = "Some"
    /\ store.last_signal = "Flat"

\* the strategy and the snapshot file before entry j of the log
StrategyBefore(j) ==
    IF j = 1 THEN build(params, NoSnapshot).strategy ELSE trace[j - 1].st

FileBefore(j) == IF j = 1 THEN NoSnapshot ELSE trace[j - 1].file

\* C30: when the historical fetch fails, on_event returns the error and the
\* engine run ends with it; the call leaves the strategy exactly as it was
\* (no price fed, not bootstrapped, signal and limiter untouched), emits no
\* intent and writes no snapshot.
C30_FetchFailureAborts ==
    \A j \in 1..Len(trace) :
        (trace[j].kind = "event" /\ trace[j].failed) =>
            /\ trace[j].result = "handler_err"
            /\ trace[j].intents = <<>>
            /\ trace[j].st = StrategyBefore(j)
            /\ ~trace[j].st.bootstrapped
            /\ trace[j].file = FileBefore(j)
            /\ IF j = Len(trace) THEN enginePc = "err" ELSE trace[j + 1].kind = "start"

\* the fetch of the first event failed: the run has ended, nothing is saved
C30_Witness ==
    /\ Len(trace) = 1
    /\ trace[1].failed
    /\ trace[1].asset = params.asset
    /\ obs.result = "handler_err"
    /\ enginePc = "err"
    /\ ~strat.bootstrapped
    /\ strat.short = <<>>
    /\ store = NoSnapshot

\* the direction an order side stands for
DirectionOf(side) == IF side = "Buy" THEN "Long" ELSE "Short"

\* C31: an on_event call changes the last signal exactly when it builds an
\* intent, and the last signal is then the direction of that intent (Buy is
\* Long, Sell is Short); a call that builds none (indicator not ready, limiter
\* denies, cap rejects, target unchanged or Flat) leaves the last signal as
\* it was.  Every save succeeds here, so the intents returned are the intents
\* built.
C31_SignalFollowsIntent ==
    [][(sent'.mkt = sent.mkt + 1 /\ obs'.kind = "event") =>
          /\ (strat'.last_signal # strat.last_signal) <=> (obs'.intents # <<>>)
          /\ obs'.intents # <<>> =>
                /\ Len(obs'.intents) = 1
                /\ strat'.last_signal = DirectionOf(obs'.intents[1].side)]_vars

\* the second event asked the limiter at instant ClockStep and got the permit,
\* but its Buy met the cap: no intent, and the signal is still the Short of
\* the first event's unfilled Sell
C31_Witness ==
    /\ obs.kind = "event"
    /\ obs.intents = <<>>
    /\ sent.mkt = 2
    /\ now = ClockStep
    /\ strat.timestamps = <<ClockStep>>
    /\ strat.last_signal = "Short"
    /\ net_position(ledger, params.asset) >= params.max_position

\* C32: the limiter never holds more permits than the strategy has emitted
\* intents: a permit is recorded only by an on_event call that emits an
\* intent, so a decision the position cap rejects uses no order-rate budget.
C32_PermitsWithinIntents ==
    Len(strat.timestamps) <= Len(trace)

\* C33: a market event for an instrument other than params.asset changes
\* nothing: on_event answers with no intent and no error, nothing is
\* submitted, no historical fetch is made, and the strategy (windows, last
\* signal, bootstrapped flag, limiter), the snapshot file and the ledger are
\* as before; the engine goes on.
C33_OtherInstrumentIgnored ==
    [][(/\ sent'.mkt = sent.mkt + 1
        /\ obs'.kind = "event"
        /\ obs'.event.value.asset # params.asset)
       => /\ obs'.result = "ok"
          /\ obs'.intents = <<>>
          /\ obs'.submitted = <<>>
          /\ ~obs'.fetched
          /\ strat' = strat
          /\ store' = store
          /\ ledger' = ledger
          /\ enginePc' = "select"]_vars

\* the first event is for ETH while the strategy for BTC has not been
\* bootstrapped: nothing was fetched or saved
C33_Witness ==
    /\ obs.kind = "event"
    /\ obs.event.value.asset = "ETH"
    /\ params.asset = "BTC"
    /\ sent.mkt = 1
    /\ ~obs.fetched
    /\ ~strat.bootstrapped
    /\ strat.short = <<>>
    /\ store = NoSnapshot
    /\ enginePc = "select"

====
